---------------------------- MODULE Spec2Model ----------------------------
(***************************************************************************)
(* Model of the BuidlGuidl client alert service (bg-client-alerts):        *)
(* the Telegram conversation state machine (bot.js), the registration      *)
(* store helpers (utils.js) and the alert ingestion endpoint (api.js).     *)
(*                                                                         *)
(* Strings are sequences of one-character strings, so that trim(),         *)
(* toLowerCase(), includes('.'), startsWith() and the address format check *)
(* are computed the way the code computes them.                            *)
(***************************************************************************)
EXTENDS Integers, Sequences, FiniteSets, TLC

VARIABLES
    store,                 \* Firestore collection bgClientAlertAddresses: docId -> record
    pendingRegistrations,  \* Map chatId -> true
    pendingChanges,        \* Map chatId -> [oldAddress, oldEns]
    pendingDeletions,      \* Map chatId -> [address, ens]
    hits,                  \* rate limiter memory store: key -> [totalHits, resetTime]
    now,                   \* wall clock, in milliseconds
    running,               \* FALSE once process.exit has been called
    optedOut,              \* history: chats that confirmed /stop and have not saved since
    passed,                \* history: key -> [start, n], the requests the limiter let
                           \* through in the window opened by the first request at start
    variant,               \* which API the process serves: "ens" (identifier) or "token"
    tokenHits,             \* the token API's limiter store: key -> [totalHits, resetTime]
    tokenPassed,           \* history: as passed, for the token API's limiter
    tasks,                 \* listener calls and alert requests, in order of arrival,
                           \* each with the await it is suspended in
    base,                  \* history: the name of the state the interleaved
                           \* handlers started from
    raw,                   \* a string handed to the identifier functions
    applied,               \* what normalizeAddress returned for it, and then for
                           \* each of its own results in turn
    responses,             \* per alert request, in order of arrival: the statuses
                           \* of the responses it was sent
    tokens,                \* the token variant's store: token -> chatId
    startup                \* main() of alerts.js: the await it is suspended in, and
                           \* the module variables db (firebase.js), bot (bot.js)
                           \* and the listening server

vars == <<store, pendingRegistrations, pendingChanges, pendingDeletions,
          hits, now, running, optedOut, passed, variant, tokenHits, tokenPassed,
          tasks, base, raw, applied, responses, tokens, startup>>

\* the variables of the parts of the model that are run on their own
elsewhere == <<raw, applied, responses, tokens, startup>>

\* main() after a start in which nothing threw: the store handle and the bot
\* are set, the listeners are registered and the server listens
Started ==
    [pc |-> "listening", webhookUrl |-> TRUE, db |-> TRUE, bot |-> TRUE,
     listeners |-> TRUE, webhookPath |-> TRUE, server |-> TRUE, route |-> TRUE]

\* nothing has been handed to them, and the service has started
Untouched ==
    /\ raw = <<"null">>
    /\ applied = <<>>
    /\ responses = <<>>
    /\ tokens = <<>>
    /\ startup = Started

\* JavaScript null / undefined where a string is expected
NULL == <<"null">>

---------------------------------------------------------------------------
(* Strings *)

Rep(c, n) == [i \in 1..n |-> c]

Range(s) == {s[i] : i \in 1..Len(s)}

UpperChars == <<"A", "B", "C", "D", "E", "F", "S", "X", "Y", "Z">>
LowerChars == <<"a", "b", "c", "d", "e", "f", "s", "x", "y", "z">>

LowerOf == [c \in Range(UpperChars) |->
               LowerChars[CHOOSE i \in 1..Len(UpperChars) : UpperChars[i] = c]]
UpperOf == [c \in Range(LowerChars) |->
               UpperChars[CHOOSE i \in 1..Len(LowerChars) : LowerChars[i] = c]]

\* String.prototype.toLowerCase / toUpperCase, one character
LowerChar(c) == IF c \in DOMAIN LowerOf THEN LowerOf[c] ELSE c
UpperChar(c) == IF c \in DOMAIN UpperOf THEN UpperOf[c] ELSE c

toLowerCase(s) == [i \in 1..Len(s) |-> LowerChar(s[i])]

WhiteSpace == {" "}

\* String.prototype.trim
RECURSIVE trimStart(_)
trimStart(s) ==
    IF Len(s) > 0 /\ s[1] \in WhiteSpace THEN trimStart(Tail(s)) ELSE s

RECURSIVE trimEnd(_)
trimEnd(s) ==
    IF Len(s) > 0 /\ s[Len(s)] \in WhiteSpace
    THEN trimEnd(SubSeq(s, 1, Len(s) - 1))
    ELSE s

trim(s) == trimEnd(trimStart(s))

\* String.prototype.startsWith
startsWith(s, p) == Len(s) >= Len(p) /\ SubSeq(s, 1, Len(p)) = p

\* RegExp search of a literal: does p occur somewhere in s
includes(s, p) ==
    \E i \in 1..(Len(s) - Len(p) + 1) :
        s[i] = p[1] /\ SubSeq(s, i, i + Len(p) - 1) = p

---------------------------------------------------------------------------
(* Addresses: ethers.getAddress as used by normalizeAddress *)

HexDigits == <<"0", "1", "2", "3", "4", "5", "6", "7", "8", "9",
               "a", "b", "c", "d", "e", "f">>

HexLetters == {"a", "b", "c", "d", "e", "f"}
UpperHexLetters == {"A", "B", "C", "D", "E", "F"}

HexValue == [c \in Range(HexDigits) |-> (CHOOSE i \in 1..Len(HexDigits) : HexDigits[i] = c) - 1]

IsHexChar(c) == LowerChar(c) \in DOMAIN HexValue

HexVal(c) == HexValue[LowerChar(c)]

\* number of hex digits of an address: 40 in ethers, scaled down here
AddressDigits == 4

\* /^(0x)?[0-9a-fA-F]{40}$/
MatchesAddressRegex(s) ==
    LET body == IF startsWith(s, <<"0", "x">>) THEN SubSeq(s, 3, Len(s)) ELSE s
    IN  /\ Len(body) = AddressDigits
        /\ \A i \in 1..Len(body) : IsHexChar(body[i])

RECURSIVE SumHex(_, _)
SumHex(s, n) == IF n = 0 THEN 0 ELSE HexVal(s[n]) + SumHex(s, n - 1)

\* Stand-in for the keccak256 digest nibble that decides the case of hex digit i
\* in the EIP-55 checksum form: a fixed function of the lower-case digits
\* (through their sum) and of the position.
DigestNibble(sum, i) == (7 * i + sum) % 16

\* ethers getChecksumAddress: "0x" + digits, letter i upper-cased iff nibble >= 8
getChecksumAddress(s) ==
    LET digits == toLowerCase(SubSeq(s, 3, Len(s)))
        sum == SumHex(digits, Len(digits))
    IN  <<"0", "x">> \o
        [i \in 1..Len(digits) |->
            IF digits[i] \in HexLetters /\ DigestNibble(sum, i) >= 8
            THEN UpperChar(digits[i])
            ELSE digits[i]]

\* /([A-F].*[a-f])|([a-f].*[A-F])/
IsMixedCase(s) ==
    /\ \E i \in 1..Len(s) : s[i] \in UpperHexLetters
    /\ \E i \in 1..Len(s) : s[i] \in HexLetters

\* ethers.getAddress: the checksum form, or NULL where it throws
getAddress(s) ==
    IF MatchesAddressRegex(s)
    THEN LET a == IF startsWith(s, <<"0", "x">>) THEN s ELSE <<"0", "x">> \o s
             result == getChecksumAddress(a)
         IN  IF IsMixedCase(a) /\ result # a THEN NULL ELSE result
    ELSE NULL

\* a normalizer that validates the address and returns it as it was typed
normalizeAddressAsTyped(address) ==
    IF address = NULL \/ getAddress(address) = NULL THEN NULL ELSE address

\* a normalizer that returns the address in upper case
normalizeAddressUpperCase(address) ==
    LET checksummed == IF address = NULL THEN NULL ELSE getAddress(address)
    IN  IF checksummed = NULL THEN NULL
        ELSE [i \in 1..Len(checksummed) |-> UpperChar(checksummed[i])]

\* utils.normalizeAddress
normalizeAddress(address) ==
    LET checksummed == IF address = NULL THEN NULL ELSE getAddress(address)
    IN  IF checksummed = NULL THEN NULL ELSE toLowerCase(checksummed)

\* utils.isENS
isENS(identifier) == identifier # NULL /\ "." \in Range(identifier)

\* utils.isValidIdentifier
isValidIdentifier(identifier) ==
    IF identifier = NULL \/ identifier = <<>>
    THEN FALSE
    ELSE IF isENS(identifier)
         THEN Len(identifier) > 3
         ELSE normalizeAddress(identifier) # NULL

---------------------------------------------------------------------------
(* The inputs of the model *)

Chats == {1, 2}

\* "0xab0..0" and "0xcd1..1", lower case: the two document ids of the model
Addr1 == <<"0", "x", "a", "b">> \o Rep("0", AddressDigits - 2)
Addr2 == <<"0", "x", "c", "d">> \o Rep("1", AddressDigits - 2)

Addresses == {Addr1, Addr2}

\* other spellings of Addr1: EIP-55 form, upper-case digits, wrong checksum
Addr1Checksum == getChecksumAddress(Addr1)
Addr1Upper == <<"0", "x">> \o [i \in 1..AddressDigits |-> UpperChar(Addr1[i + 2])]
Addr1BadChecksum == <<"0", "x", "a", "B">> \o Rep("0", AddressDigits - 2)

NameEth == <<"a", ".", "e", "t", "h">>
NotAnAddress == <<"0", "x", "z", "z">>

cmdStart == <<"/", "s", "t", "a", "r", "t">>
cmdShow == <<"/", "s", "h", "o", "w">>
cmdChange == <<"/", "c", "h", "a", "n", "g", "e">>
cmdStop == <<"/", "s", "t", "o", "p">>
cmdHelp == <<"/", "h", "e", "l", "p">>
cmdUnknown == <<"/", "f", "o", "o">>

knownCommands == <<cmdStart, cmdShow, cmdChange, cmdStop, cmdHelp>>

textYes == <<" ", "Y", "e", "s", " ">>
textY == <<"y">>

---------------------------------------------------------------------------
(* JavaScript Map *)

MapHas(m, k) == k \in DOMAIN m
MapSet(m, k, v) == [x \in DOMAIN m \cup {k} |-> IF x = k THEN v ELSE m[x]]
MapDelete(m, k) == [x \in DOMAIN m \ {k} |-> m[x]]
EmptyMap == [x \in {} |-> TRUE]

---------------------------------------------------------------------------
(* Registration store: utils.js over the Firestore collection *)

\* order of document ids (Firestore returns query results ordered by id)
CharRank(c) == IF IsHexChar(c) THEN HexVal(c) ELSE 16

RECURSIVE IdLess(_, _)
IdLess(a, b) ==
    IF b = <<>> THEN FALSE
    ELSE IF a = <<>> THEN TRUE
    ELSE IF a[1] # b[1] THEN CharRank(a[1]) < CharRank(b[1])
    ELSE IdLess(Tail(a), Tail(b))

\* a save that drops the name
saveAddressWithoutEns(st, ens, address, chatId, t) ==
    MapSet(st, address, [ens |-> NULL, address |-> address, chatId |-> chatId, createdAt |-> t])

\* a save that creates a document and leaves an existing one as it is
saveAddressKeepsFirst(st, ens, address, chatId, t) ==
    IF MapHas(st, address) THEN st
    ELSE MapSet(st, address,
                [ens |-> IF ens = NULL \/ ens = <<>> THEN NULL ELSE ens,
                 address |-> address, chatId |-> chatId, createdAt |-> t])

\* utils.saveAddress: doc(address).set({ens: ens || null, address, chatId, createdAt})
saveAddress(st, ens, address, chatId, t) ==
    MapSet(st, address,
           [ens |-> IF ens = NULL \/ ens = <<>> THEN NULL ELSE ens,
            address |-> address, chatId |-> chatId, createdAt |-> t])

\* utils.deleteAddress: doc(address).delete()
deleteAddress(st, address) == MapDelete(st, address)

NoDoc == [exists |-> FALSE]

\* utils.getAddressByChatId: where('chatId', '==', chatId).limit(1)
getAddressByChatId(st, chatId) ==
    LET matches == {k \in DOMAIN st : st[k].chatId = chatId}
    IN  IF matches = {} THEN NoDoc
        ELSE LET id == CHOOSE k \in matches : \A j \in matches \ {k} : IdLess(k, j)
             IN  [exists |-> TRUE, ens |-> st[id].ens,
                  address |-> st[id].address, docId |-> id]

\* the chatId a document lookup returns; 0 stands for null
NoChat == 0

\* a lookup that falls back to some document when the one asked for is missing
docChatIdOfAny(st, id) ==
    IF id \in DOMAIN st THEN st[id].chatId
    ELSE IF DOMAIN st # {} THEN st[CHOOSE k \in DOMAIN st : TRUE].chatId
    ELSE NoChat

docChatId(st, id) == IF id \in DOMAIN st THEN st[id].chatId ELSE NoChat

---------------------------------------------------------------------------
(* Handlers are operators on a record m of the process state                *)
(* [store, pendingRegistrations, pendingChanges, pendingDeletions, hits,    *)
(*  running, bot, calls, handler, response]; bot is FALSE while the module's *)
(* bot variable is null (main initializes it before it starts the API); env *)
(* holds what the collaborators answer:                                     *)
(* env.fails, the positions (in call order) of the collaborator calls that  *)
(* throw, env.error, the message of the error they throw, and env.resolve,  *)
(* the answer of provider.resolveName.                                      *)

\* one collaborator call, logged; it throws iff its position is in env.fails
Call(m, env, op, text, key, chatId) ==
    [m EXCEPT !.calls = Append(@, [op |-> op, text |-> text, key |-> key,
                                   chatId |-> chatId,
                                   ok |-> (Len(@) + 1) \notin env.fails,
                                   err |-> IF (Len(@) + 1) \in env.fails
                                           THEN env.error ELSE ""])]

\* the message of the error the last call threw
thrownBy(m) == IF m.calls = <<>> THEN "" ELSE m.calls[Len(m.calls)].err

\* did the call just issued return normally
Ok(m) == m.calls[Len(m.calls)].ok

\* bot.sendMessage(chatId, text); key is the identifier the text shows, if any
sendMessage(m, env, chatId, text, key) == Call(m, env, "sendMessage", text, key, chatId)

\* process.exit(1) of the unhandledRejection handler: the in-memory maps are gone
Exit(m) ==
    [m EXCEPT !.running = FALSE,
              !.pendingRegistrations = EmptyMap,
              !.pendingChanges = EmptyMap,
              !.pendingDeletions = EmptyMap,
              !.hits = EmptyMap]

\* the sendMessage of a catch block: if it throws too, the handler's promise is
\* rejected and nothing handles it
Apology(m, env, chatId, text) ==
    LET m1 == sendMessage(m, env, chatId, text, NULL)
    IN  IF Ok(m1) THEN m1 ELSE Exit(m1)

\* a reply inside the try block
Reply(m, env, chatId, text, key, sorry) ==
    LET m1 == sendMessage(m, env, chatId, text, key)
    IN  IF Ok(m1) THEN m1 ELSE Apology(m1, env, chatId, sorry)

\* existingAddress.ens || existingAddress.address
identifierOf(info) == IF info.ens = NULL \/ info.ens = <<>> THEN info.address ELSE info.ens

\* bot.onText(/\/start/)
onStart(m, env, chatId) ==
    LET m1 == Call(m, env, "getAddressByChatId", "", NULL, chatId)
        existingAddress == getAddressByChatId(m.store, chatId)
    IN  IF ~Ok(m1) THEN Apology(m1, env, chatId, "sorry")
        ELSE IF existingAddress.exists
        THEN Reply(m1, env, chatId, "welcome_back", identifierOf(existingAddress), "sorry")
        ELSE Reply([m1 EXCEPT !.pendingRegistrations = MapSet(@, chatId, TRUE)],
                   env, chatId, "ask_identifier", NULL, "sorry")

\* bot.onText(/\/show/)
onShow(m, env, chatId) ==
    LET m1 == Call(m, env, "getAddressByChatId", "", NULL, chatId)
        addressInfo == getAddressByChatId(m.store, chatId)
    IN  IF ~Ok(m1) THEN Apology(m1, env, chatId, "sorry")
        ELSE IF addressInfo.exists
        THEN Reply(m1, env, chatId, "your_identifier", identifierOf(addressInfo), "sorry")
        ELSE Reply(m1, env, chatId, "not_registered", NULL, "sorry")

\* a /change that captures the address of the record but not its name
onChangeWithoutEns(m, env, chatId) ==
    LET m1 == Call(m, env, "getAddressByChatId", "", NULL, chatId)
        addressInfo == getAddressByChatId(m.store, chatId)
    IN  IF ~Ok(m1) THEN Apology(m1, env, chatId, "sorry")
        ELSE IF ~addressInfo.exists
        THEN Reply(m1, env, chatId, "not_registered", NULL, "sorry")
        ELSE Reply([m1 EXCEPT !.pendingChanges =
                        MapSet(@, chatId, [oldAddress |-> addressInfo.docId,
                                           oldEns |-> NULL])],
                   env, chatId, "ask_new_identifier", identifierOf(addressInfo), "sorry")

\* bot.onText(/\/change/)
onChange(m, env, chatId) ==
    LET m1 == Call(m, env, "getAddressByChatId", "", NULL, chatId)
        addressInfo == getAddressByChatId(m.store, chatId)
    IN  IF ~Ok(m1) THEN Apology(m1, env, chatId, "sorry")
        ELSE IF ~addressInfo.exists
        THEN Reply(m1, env, chatId, "not_registered", NULL, "sorry")
        ELSE Reply([m1 EXCEPT !.pendingChanges =
                        MapSet(@, chatId, [oldAddress |-> addressInfo.docId,
                                           oldEns |-> addressInfo.ens])],
                   env, chatId, "ask_new_identifier", identifierOf(addressInfo), "sorry")

\* a /stop that asks for a confirmation whether or not the chat is registered
onStopAlwaysAsks(m, env, chatId) ==
    LET m1 == Call(m, env, "getAddressByChatId", "", NULL, chatId)
        addressInfo == getAddressByChatId(m.store, chatId)
    IN  IF ~Ok(m1) THEN Apology(m1, env, chatId, "sorry")
        ELSE IF ~addressInfo.exists
        THEN Reply([m1 EXCEPT !.pendingDeletions =
                        MapSet(@, chatId, [address |-> NULL, ens |-> NULL])],
                   env, chatId, "nothing_to_delete", NULL, "sorry")
        ELSE Reply([m1 EXCEPT !.pendingDeletions =
                        MapSet(@, chatId, [address |-> addressInfo.docId,
                                           ens |-> addressInfo.ens])],
                   env, chatId, "confirm_stop", identifierOf(addressInfo), "sorry")

\* bot.onText(/\/stop/)
onStop(m, env, chatId) ==
    LET m1 == Call(m, env, "getAddressByChatId", "", NULL, chatId)
        addressInfo == getAddressByChatId(m.store, chatId)
    IN  IF ~Ok(m1) THEN Apology(m1, env, chatId, "sorry")
        ELSE IF ~addressInfo.exists
        THEN Reply(m1, env, chatId, "nothing_to_delete", NULL, "sorry")
        ELSE Reply([m1 EXCEPT !.pendingDeletions =
                        MapSet(@, chatId, [address |-> addressInfo.docId,
                                           ens |-> addressInfo.ens])],
                   env, chatId, "confirm_stop", identifierOf(addressInfo), "sorry")

\* bot.onText(/\/help/)
onHelp(m, env, chatId) == Reply(m, env, chatId, "help", NULL, "sorry")

---------------------------------------------------------------------------
(* Freeform replies *)

\* utils.resolveENS: the answer of provider.resolveName lower-cased; null when
\* the provider answers null or throws (thrown = TRUE)
resolveENSAsAnswered(thrown, answer) == IF thrown THEN NULL ELSE answer

resolveENS(thrown, answer) ==
    IF thrown \/ answer = NULL THEN NULL ELSE toLowerCase(answer)

\* handleIdentifierInput, catch block
handleIdentifierInputCatch(m, env, chatId) ==
    Apology([m EXCEPT !.pendingRegistrations = MapDelete(@, chatId)],
            env, chatId, "sorry_start_again")

\* handleIdentifierInput: await saveAddress(ens, address, chatId);
\* pendingRegistrations.delete(chatId); await bot.sendMessage(...)
handleIdentifierInputSave(m, env, chatId, ens, address, t) ==
    LET m1 == Call(m, env, "saveAddress", "", address, chatId)
        m2 == [m1 EXCEPT !.store = saveAddress(@, ens, address, chatId, t),
                         !.pendingRegistrations = MapDelete(@, chatId)]
        m3 == sendMessage(m2, env, chatId, "registered", identifierOf([ens |-> ens, address |-> address]))
    IN  IF ~Ok(m1) THEN handleIdentifierInputCatch(m1, env, chatId)
        ELSE IF ~Ok(m3) THEN handleIdentifierInputCatch(m3, env, chatId)
        ELSE m3

\* a registration handler that gives the flow up when the address is invalid
handleIdentifierInputGivesUp(m, env, chatId, identifier, t) ==
    IF identifier = NULL \/ identifier = <<>>
    THEN LET m1 == sendMessage(m, env, chatId, "invalid_input", NULL)
         IN  IF Ok(m1) THEN m1 ELSE handleIdentifierInputCatch(m1, env, chatId)
    ELSE LET trimmed == trim(identifier)
         IN  IF isENS(trimmed)
             THEN LET m1 == sendMessage(m, env, chatId, "resolving", trimmed)
                      m2 == Call(m1, env, "resolveName", "", trimmed, NoChat)
                      address == resolveENS(~Ok(m2), env.resolve)
                      m3 == sendMessage(m2, env, chatId, "resolve_failed", trimmed)
                  IN  IF ~Ok(m1) THEN handleIdentifierInputCatch(m1, env, chatId)
                      ELSE IF address = NULL
                      THEN (IF Ok(m3) THEN m3 ELSE handleIdentifierInputCatch(m3, env, chatId))
                      ELSE handleIdentifierInputSave(m2, env, chatId, trimmed, address, t)
             ELSE LET normalized == normalizeAddress(trimmed)
                      m1 == sendMessage([m EXCEPT !.pendingRegistrations = MapDelete(@, chatId)],
                                        env, chatId, "invalid_address", trimmed)
                  IN  IF normalized = NULL
                      THEN (IF Ok(m1) THEN m1 ELSE handleIdentifierInputCatch(m1, env, chatId))
                      ELSE handleIdentifierInputSave(m, env, chatId, NULL, normalized, t)

\* handleIdentifierInput(chatId, identifier)
handleIdentifierInput(m, env, chatId, identifier, t) ==
    IF identifier = NULL \/ identifier = <<>>
    THEN LET m1 == sendMessage(m, env, chatId, "invalid_input", NULL)
         IN  IF Ok(m1) THEN m1 ELSE handleIdentifierInputCatch(m1, env, chatId)
    ELSE LET trimmed == trim(identifier)
         IN  IF isENS(trimmed)
             THEN LET m1 == sendMessage(m, env, chatId, "resolving", trimmed)
                      m2 == Call(m1, env, "resolveName", "", trimmed, NoChat)
                      address == resolveENS(~Ok(m2), env.resolve)
                      m3 == sendMessage(m2, env, chatId, "resolve_failed", trimmed)
                  IN  IF ~Ok(m1) THEN handleIdentifierInputCatch(m1, env, chatId)
                      ELSE IF address = NULL
                      THEN (IF Ok(m3) THEN m3 ELSE handleIdentifierInputCatch(m3, env, chatId))
                      ELSE handleIdentifierInputSave(m2, env, chatId, trimmed, address, t)
             ELSE LET normalized == normalizeAddress(trimmed)
                      m1 == sendMessage(m, env, chatId, "invalid_address", trimmed)
                  IN  IF normalized = NULL
                      THEN (IF Ok(m1) THEN m1 ELSE handleIdentifierInputCatch(m1, env, chatId))
                      ELSE handleIdentifierInputSave(m, env, chatId, NULL, normalized, t)

\* handleAddressChange, catch block
handleAddressChangeCatch(m, env, chatId) ==
    Apology([m EXCEPT !.pendingChanges = MapDelete(@, chatId)],
            env, chatId, "sorry_change_again")

\* a change that saves the new record first and deletes the old one afterwards
handleAddressChangeSaveFirst(m, env, chatId, oldInfo, ens, address, t) ==
    LET m1 == Call(m, env, "saveAddress", "", address, chatId)
        m2 == [m1 EXCEPT !.store = saveAddress(@, ens, address, chatId, t)]
        m3 == Call(m2, env, "deleteAddress", "", oldInfo.oldAddress, chatId)
        m4 == [m3 EXCEPT !.store = deleteAddress(@, oldInfo.oldAddress),
                         !.pendingChanges = MapDelete(@, chatId)]
        m5 == sendMessage(m4, env, chatId, "changed", identifierOf([ens |-> ens, address |-> address]))
    IN  IF ~Ok(m1) THEN Apology([m1 EXCEPT !.pendingChanges = MapDelete(@, chatId)],
                                env, chatId, "sorry_change_again")
        ELSE IF ~Ok(m3) THEN Apology([m3 EXCEPT !.pendingChanges = MapDelete(@, chatId)],
                                     env, chatId, "sorry_change_again")
        ELSE IF ~Ok(m5) THEN Apology([m5 EXCEPT !.pendingChanges = MapDelete(@, chatId)],
                                     env, chatId, "sorry_change_again")
        ELSE m5

\* handleAddressChange: await deleteAddress(oldInfo.oldAddress);
\* await saveAddress(ens, address, chatId); pendingChanges.delete(chatId);
\* await bot.sendMessage(...)
handleAddressChangeSave(m, env, chatId, oldInfo, ens, address, t) ==
    LET m1 == Call(m, env, "deleteAddress", "", oldInfo.oldAddress, chatId)
        m2 == [m1 EXCEPT !.store = deleteAddress(@, oldInfo.oldAddress)]
        m3 == Call(m2, env, "saveAddress", "", address, chatId)
        m4 == [m3 EXCEPT !.store = saveAddress(@, ens, address, chatId, t),
                         !.pendingChanges = MapDelete(@, chatId)]
        m5 == sendMessage(m4, env, chatId, "changed", identifierOf([ens |-> ens, address |-> address]))
    IN  IF ~Ok(m1) THEN handleAddressChangeCatch(m1, env, chatId)
        ELSE IF ~Ok(m3) THEN handleAddressChangeCatch(m3, env, chatId)
        ELSE IF ~Ok(m5) THEN handleAddressChangeCatch(m5, env, chatId)
        ELSE m5

\* handleAddressChange(chatId, identifier)
handleAddressChange(m, env, chatId, identifier, t) ==
    IF identifier = NULL \/ identifier = <<>>
    THEN LET m1 == sendMessage(m, env, chatId, "invalid_input", NULL)
         IN  IF Ok(m1) THEN m1 ELSE handleAddressChangeCatch(m1, env, chatId)
    ELSE IF ~MapHas(m.pendingChanges, chatId)
    THEN LET m1 == sendMessage(m, env, chatId, "session_expired", NULL)
         IN  IF Ok(m1) THEN m1 ELSE handleAddressChangeCatch(m1, env, chatId)
    ELSE LET trimmed == trim(identifier)
             oldInfo == m.pendingChanges[chatId]
         IN  IF isENS(trimmed)
             THEN LET m1 == sendMessage(m, env, chatId, "resolving", trimmed)
                      m2 == Call(m1, env, "resolveName", "", trimmed, NoChat)
                      address == resolveENS(~Ok(m2), env.resolve)
                      m3 == sendMessage(m2, env, chatId, "resolve_failed", trimmed)
                  IN  IF ~Ok(m1) THEN handleAddressChangeCatch(m1, env, chatId)
                      ELSE IF address = NULL
                      THEN (IF Ok(m3) THEN m3 ELSE handleAddressChangeCatch(m3, env, chatId))
                      ELSE handleAddressChangeSave(m2, env, chatId, oldInfo, trimmed, address, t)
             ELSE LET normalized == normalizeAddress(trimmed)
                      m1 == sendMessage(m, env, chatId, "invalid_address", trimmed)
                  IN  IF normalized = NULL
                      THEN (IF Ok(m1) THEN m1 ELSE handleAddressChangeCatch(m1, env, chatId))
                      ELSE handleAddressChangeSave(m, env, chatId, oldInfo, NULL, normalized, t)

\* a confirmation test that compares the reply without trimming it
isConfirmationUntrimmed(response) ==
    toLowerCase(response) = <<"y">> \/ toLowerCase(response) = <<"y", "e", "s">>

\* normalizedResponse === 'y' || normalizedResponse === 'yes'
isConfirmation(response) ==
    LET normalizedResponse == toLowerCase(trim(response))
    IN  normalizedResponse = <<"y">> \/ normalizedResponse = <<"y", "e", "s">>

\* handleDeletionConfirmation, catch block
handleDeletionConfirmationCatch(m, env, chatId) ==
    Apology([m EXCEPT !.pendingDeletions = MapDelete(@, chatId)],
            env, chatId, "sorry_stop_again")

\* handleDeletionConfirmation(chatId, response)
handleDeletionConfirmation(m, env, chatId, response) ==
    IF ~MapHas(m.pendingDeletions, chatId)
    THEN LET m1 == sendMessage(m, env, chatId, "session_expired", NULL)
         IN  IF Ok(m1) THEN m1 ELSE handleDeletionConfirmationCatch(m1, env, chatId)
    ELSE IF response = NULL
    THEN \* response.trim() on undefined throws a TypeError
         handleDeletionConfirmationCatch(m, env, chatId)
    ELSE LET deletionInfo == m.pendingDeletions[chatId]
         IN  IF isConfirmation(response)
             THEN LET m1 == Call(m, env, "deleteAddress", "", deletionInfo.address, chatId)
                      m2 == [m1 EXCEPT !.store = deleteAddress(@, deletionInfo.address),
                                       !.pendingDeletions = MapDelete(@, chatId)]
                      m3 == sendMessage(m2, env, chatId, "opted_out", identifierOf(deletionInfo))
                  IN  IF ~Ok(m1) THEN handleDeletionConfirmationCatch(m1, env, chatId)
                      ELSE IF ~Ok(m3) THEN handleDeletionConfirmationCatch(m3, env, chatId)
                      ELSE m3
             ELSE LET m1 == sendMessage([m EXCEPT !.pendingDeletions = MapDelete(@, chatId)],
                                        env, chatId, "cancelled", NULL)
                  IN  IF Ok(m1) THEN m1 ELSE handleDeletionConfirmationCatch(m1, env, chatId)

\* bot.on('message')
onMessage(m, env, chatId, text, t) ==
    IF text # NULL /\ startsWith(text, <<"/">>)
    THEN IF ~\E i \in 1..Len(knownCommands) : startsWith(text, knownCommands[i])
         THEN LET m1 == sendMessage([m EXCEPT !.handler = "unknown"], env, chatId,
                                    "unknown_command", NULL)
              IN  IF Ok(m1) THEN m1 ELSE Exit(m1)
         ELSE [m EXCEPT !.handler = "command"]
    ELSE IF MapHas(m.pendingDeletions, chatId)
    THEN handleDeletionConfirmation([m EXCEPT !.handler = "deletion"], env, chatId, text)
    ELSE IF MapHas(m.pendingChanges, chatId)
    THEN handleAddressChange([m EXCEPT !.handler = "change"], env, chatId, text, t)
    ELSE IF MapHas(m.pendingRegistrations, chatId)
    THEN handleIdentifierInput([m EXCEPT !.handler = "registration"], env, chatId, text, t)
    ELSE [m EXCEPT !.handler = "none"]

\* does an onText callback registered for command cmd fire on this text
onTextMatches(m, text, cmd) == m.running /\ text # NULL /\ includes(text, cmd)

\* one onText listener: its callback runs when its pattern matches the text
onTextStart(m, env, chatId, text) ==
    IF onTextMatches(m, text, cmdStart) THEN onStart(m, env, chatId) ELSE m

onTextShow(m, env, chatId, text) ==
    IF onTextMatches(m, text, cmdShow) THEN onShow(m, env, chatId) ELSE m

onTextChange(m, env, chatId, text) ==
    IF onTextMatches(m, text, cmdChange) THEN onChange(m, env, chatId) ELSE m

onTextStop(m, env, chatId, text) ==
    IF onTextMatches(m, text, cmdStop) THEN onStop(m, env, chatId) ELSE m

onTextHelp(m, env, chatId, text) ==
    IF onTextMatches(m, text, cmdHelp) THEN onHelp(m, env, chatId) ELSE m

\* TelegramBot.processUpdate: emit 'message', then the onText callbacks in the
\* order they were registered
processUpdate(m, env, chatId, text, t) ==
    onTextHelp(
        onTextStop(
            onTextChange(
                onTextShow(
                    onTextStart(onMessage(m, env, chatId, text, t), env, chatId, text),
                    env, chatId, text),
                env, chatId, text),
            env, chatId, text),
        env, chatId, text)

---------------------------------------------------------------------------
(* Alert ingestion endpoint: api.js *)

\* rateLimit({windowMs, max, keyGenerator, message})
windowMs == 24 * 60 * 60 * 1000
max == 100

\* message: {error: ...}, the body of a 429 response
limitMessage == "Too many alerts from this identifier. Maximum 100 alerts per day."

maxMessageLength == 1000
maxAlertTypeLength == 100

\* An alert request is [ens, message, alertType, ip]: ens is a string or NULL
\* (absent); message and alertType are represented by their length, 0 standing
\* for an absent or empty field.
ClientIp == <<"i", "p">>

\* a key generator that counts every spelling of an address under one key
keyGeneratorNormalized(req) ==
    IF req.ens = NULL \/ req.ens = <<>> THEN req.ip
    ELSE IF normalizeAddress(req.ens) # NULL THEN normalizeAddress(req.ens)
    ELSE req.ens

\* keyGenerator: req.body.ens || req.ip
keyGenerator(req) == IF req.ens = NULL \/ req.ens = <<>> THEN req.ip ELSE req.ens

\* a store that never starts a new window for a key it has seen
incrementWithoutReset(h, key, t) ==
    LET client == IF MapHas(h, key) THEN h[key]
                  ELSE [totalHits |-> 0, resetTime |-> t + windowMs]
    IN  MapSet(h, key, [client EXCEPT !.totalHits = @ + 1])

\* the limiter's memory store, increment(key): a client record is created with
\* resetTime = now + windowMs, is reset once resetTime <= now, then counts the hit
increment(h, key, t) ==
    LET client == IF MapHas(h, key) /\ ~(h[key].resetTime <= t)
                  THEN h[key]
                  ELSE [totalHits |-> 0, resetTime |-> t + windowMs]
    IN  MapSet(h, key, [client EXCEPT !.totalHits = @ + 1])

\* a limiter that lets one request more through
limitReachedOneLate(h, key) == h[key].totalHits > max + 1

\* the limiter's decision for the request just counted
limitReached(h, key) == h[key].totalHits > max

NoResponse == [status |-> 0, error |-> ""]

Respond(m, status, error) == [m EXCEPT !.response = [status |-> status, error |-> error]]

\* a catch block that passes the error's message on to the caller
alertCatchLeaksError(m) == Respond(m, 500, thrownBy(m))

\* a catch block that reports success
alertCatchReportsSuccess(m) == Respond(m, 200, "")

\* api.js catch block of POST /api/alert
alertCatch(m) == Respond(m, 500, "Internal server error")

\* bot.js sendAlert: throws 'Bot not initialized' while bot is null, else awaits
\* one bot.sendMessage
botSendAlert(m, env, chatId) ==
    IF m.bot THEN sendMessage(m, env, chatId, "alert", NULL) ELSE m

\* a route that sends a second time when the first send throws
sendAlertRetries(m, env, chatId) ==
    LET m1 == botSendAlert(m, env, chatId)
        m2 == botSendAlert(m1, env, chatId)
    IN  IF ~m.bot THEN alertCatch(m1)
        ELSE IF Ok(m1) THEN Respond(m1, 200, "")
        ELSE IF Ok(m2) THEN Respond(m2, 200, "")
        ELSE alertCatch(m2)

\* a route that drops the registrations of a chat it could not reach
sendAlertForgetsUnreachable(m, env, chatId) ==
    LET m1 == botSendAlert(m, env, chatId)
    IN  IF m.bot /\ Ok(m1) THEN Respond(m1, 200, "")
        ELSE alertCatch([m1 EXCEPT !.store =
                            [k \in {a \in DOMAIN @ : @[a].chatId # chatId} |-> @[k]]])

\* await sendAlert(chatId, alertType, message), then res.json({success: true})
sendAlert(m, env, chatId) ==
    LET m1 == botSendAlert(m, env, chatId)
    IN  IF m.bot /\ Ok(m1) THEN Respond(m1, 200, "") ELSE alertCatch(m1)

\* a lookup that prefers the record whose stored name is the identifier
getChatIdByStoredName(st, identifier, thrown, answer) ==
    IF isENS(identifier) /\ \E k \in DOMAIN st : st[k].ens = identifier
    THEN st[CHOOSE k \in DOMAIN st : st[k].ens = identifier].chatId
    ELSE IF isENS(identifier)
    THEN (IF resolveENS(thrown, answer) = NULL THEN NoChat
          ELSE docChatId(st, resolveENS(thrown, answer)))
    ELSE IF normalizeAddress(identifier) = NULL THEN NoChat
    ELSE docChatId(st, normalizeAddress(identifier))

\* utils.getChatIdByIdentifier, when its calls return or resolveName throws
\* (thrown): the chatId of the document, NoChat for null
getChatIdByIdentifier(st, identifier, thrown, answer) ==
    LET address == IF isENS(identifier) THEN resolveENS(thrown, answer)
                   ELSE normalizeAddress(identifier)
    IN  IF address = NULL THEN NoChat ELSE docChatId(st, address)

\* const chatId = await getChatIdByIdentifier(ens); if (!chatId) 404; sendAlert
\* utils.getChatIdByIdentifier: resolve a name or normalize an address, then
\* doc(identifier).get()
alertLookupAndSend(m, env, ens) ==
    LET m1 == IF isENS(ens) THEN Call(m, env, "resolveName", "", ens, NoChat) ELSE m
        identifier == IF isENS(ens) THEN resolveENS(~Ok(m1), env.resolve)
                      ELSE normalizeAddress(ens)
        m2 == Call(m1, env, "get", "", identifier, NoChat)
        chatId == IF identifier = NULL THEN NoChat ELSE docChatId(m.store, identifier)
    IN  IF identifier = NULL
        THEN Respond(m1, 404, "Identifier not found")
        ELSE IF ~Ok(m2) THEN alertCatch(m2)
        ELSE IF chatId = NoChat THEN Respond(m2, 404, "Identifier not found")
        ELSE sendAlert(m2, env, chatId)

\* a route handler that checks the message length before the identifier
alertHandlerLengthFirst(m, env, req) ==
    IF req.ens = NULL \/ req.ens = <<>> \/ req.message = 0 \/ req.alertType = 0
    THEN Respond(m, 400, "Missing required fields")
    ELSE IF req.message > maxMessageLength
    THEN Respond(m, 400, "Message too long")
    ELSE IF ~isValidIdentifier(req.ens)
    THEN Respond(m, 400, "Invalid identifier format")
    ELSE IF req.alertType > maxAlertTypeLength
    THEN Respond(m, 400, "Alert type too long")
    ELSE alertLookupAndSend(m, env, req.ens)

\* the route handler of POST /api/alert
alertHandler(m, env, req) ==
    IF req.ens = NULL \/ req.ens = <<>> \/ req.message = 0 \/ req.alertType = 0
    THEN Respond(m, 400, "Missing required fields")
    ELSE IF ~isValidIdentifier(req.ens)
    THEN Respond(m, 400, "Invalid identifier format")
    ELSE IF req.message > maxMessageLength
    THEN Respond(m, 400, "Message too long")
    ELSE IF req.alertType > maxAlertTypeLength
    THEN Respond(m, 400, "Alert type too long")
    ELSE alertLookupAndSend(m, env, req.ens)

\* a route that answers the four field checks before it looks at the limiter's
\* decision
postAlertChecksFirst(m, env, req, t) ==
    LET key == keyGenerator(req)
        m1 == [m EXCEPT !.hits = increment(@, key, t)]
        invalid == \/ req.ens = NULL \/ req.ens = <<>> \/ req.message = 0 \/ req.alertType = 0
                   \/ ~isValidIdentifier(req.ens)
                   \/ req.message > maxMessageLength
                   \/ req.alertType > maxAlertTypeLength
    IN  IF invalid THEN alertHandler(m1, env, req)
        ELSE IF limitReached(m1.hits, key)
        THEN Respond(m1, 429, limitMessage)
        ELSE alertHandler(m1, env, req)

\* a limiter with skipFailedRequests: the hit of a request answered 400 or
\* above is taken back
postAlertSkipsFailed(m, env, req, t) ==
    LET key == keyGenerator(req)
        m1 == [m EXCEPT !.hits = increment(@, key, t)]
    IN  IF limitReached(m1.hits, key)
        THEN Respond(m1, 429, limitMessage)
        ELSE LET done == alertHandler(m1, env, req)
             IN  IF done.response.status >= 400 THEN [done EXCEPT !.hits = m.hits] ELSE done

\* app.get('/health'): res.json({status: 'ok'})
getHealth(m) == Respond(m, 200, "")

\* app.post('/api/alert', alertLimiter, handler)
postAlert(m, env, req, t) ==
    LET key == keyGenerator(req)
        m1 == [m EXCEPT !.hits = increment(@, key, t)]
    IN  IF limitReached(m1.hits, key)
        THEN Respond(m1, 429, limitMessage)
        ELSE alertHandler(m1, env, req)

---------------------------------------------------------------------------
(* Webhook endpoint: api.js                                                  *)

\* An update is [object, chatId, text]; object is FALSE for a request body that
\* is no update object, on which bot.processUpdate throws a TypeError.

\* bot.js getWebhookPath: bot ? bot.webhookPath : null; path is the value
\* initializeBot stored, NULL in polling mode
getWebhookPath(m, path) == IF m.bot THEN path ELSE NULL

\* bot.js processWebhookUpdate: throws while the bot is not initialized, else
\* bot.processUpdate(update), which starts the listeners and does not await them
processWebhookUpdate(m, env, update, t) ==
    IF ~m.bot \/ ~update.object THEN [threw |-> TRUE, m |-> m]
    ELSE [threw |-> FALSE, m |-> processUpdate(m, env, update.chatId, update.text, t)]

\* a route that answers by the outcome of the handlers the update started
webhookSendStatusAwaitsHandlers(r) ==
    Respond(r.m, IF r.threw \/ \E i \in 1..Len(r.m.calls) : ~r.m.calls[i].ok
                 THEN 500 ELSE 200, "")

\* try { processWebhookUpdate(req.body); res.sendStatus(200) }
\* catch (error) { res.sendStatus(500) }; r is the outcome of processWebhookUpdate
webhookSendStatus(r) == Respond(r.m, IF r.threw THEN 500 ELSE 200, "")

\* if (webhookPath) app.post(webhookPath, ...); without the route the request
\* reaches the 404 handler
webhookPost(m, env, path, update, t) ==
    IF getWebhookPath(m, path) = NULL THEN Respond(m, 404, "Not found")
    ELSE webhookSendStatus(processWebhookUpdate(m, env, update, t))

---------------------------------------------------------------------------
(* The token variant of the HTTP API: the same route, keyed by a token       *)

\* rateLimit({windowMs: 60 * 60 * 1000, max: 20, ...})
tokenWindowMs == 60 * 60 * 1000
tokenMax == 20

\* the body of the limiter's 429 answer
tokenLimitMessage == "Too many alerts from this token. Maximum 20 alerts per hour."

\* number of characters of a token
TokenLength == 6

\* keyGenerator: req.body.token || req.ip
tokenKeyGenerator(req) == IF req.token = NULL \/ req.token = <<>> THEN req.ip ELSE req.token

\* the limiter's memory store, increment(key), with the token API's window
tokenIncrement(h, key, t) ==
    LET client == IF MapHas(h, key) /\ ~(h[key].resetTime <= t)
                  THEN h[key]
                  ELSE [totalHits |-> 0, resetTime |-> t + tokenWindowMs]
    IN  MapSet(h, key, [client EXCEPT !.totalHits = @ + 1])

\* the limiter's decision for the request just counted
tokenLimitReached(h, key) == h[key].totalHits > tokenMax

DecimalDigits == <<"0", "1", "2", "3", "4", "5", "6", "7", "8", "9">>

\* isValidTokenFormat: 6 uppercase alphanumeric characters (of the letters and
\* digits this model writes strings in)
isValidTokenFormat(token) ==
    /\ Len(token) = TokenLength
    /\ \A i \in 1..Len(token) : token[i] \in Range(UpperChars) \cup Range(DecimalDigits)

\* const chatId = await getChatIdByToken(token); if (!chatId) 404; sendAlert.
\* The lookup is a collaborator call whose answer is env.chat.
tokenLookupAndSend(m, env, token) ==
    LET m1 == Call(m, env, "getChatIdByToken", "", token, NoChat)
    IN  IF ~Ok(m1) THEN alertCatch(m1)
        ELSE IF env.chat = NoChat THEN Respond(m1, 404, "Token not found")
        ELSE sendAlert(m1, env, env.chat)

\* the route handler of POST /api/alert
tokenAlertHandler(m, env, req) ==
    IF req.token = NULL \/ req.token = <<>> \/ req.message = 0 \/ req.alertType = 0
    THEN Respond(m, 400, "Missing required fields")
    ELSE IF ~isValidTokenFormat(req.token)
    THEN Respond(m, 400, "Invalid token format")
    ELSE IF req.message > maxMessageLength
    THEN Respond(m, 400, "Message too long")
    ELSE IF req.alertType > maxAlertTypeLength
    THEN Respond(m, 400, "Alert type too long")
    ELSE tokenLookupAndSend(m, env, req.token)

\* app.post('/api/alert', alertLimiter, handler)
tokenPostAlert(m, env, req, t) ==
    LET key == tokenKeyGenerator(req)
        m1 == [m EXCEPT !.hits = tokenIncrement(@, key, t)]
    IN  IF tokenLimitReached(m1.hits, key)
        THEN Respond(m1, 429, tokenLimitMessage)
        ELSE tokenAlertHandler(m1, env, req)

---------------------------------------------------------------------------
(* Bounds and input sets *)

\* clock steps of half a window
MaxTicks == 2
\* requests counted past the limit for the one key that is driven to its limit
MaxOver == 2

HalfWindow == IF variant = "token" THEN tokenWindowMs \div 2 ELSE windowMs \div 2

\* which collaborator calls throw, for a handler that issues n calls when none
\* throws: none, one, or one and the call after it (the apology of the catch
\* block)
Fails(n) == {{}} \cup {{i} : i \in 1..n} \cup {{i, i + 1} : i \in 1..n}

NoFails == {}

\* what provider.resolveName answers: nothing, or an address in checksum form
ResolveAnswers == {NULL} \cup {getChecksumAddress(a) : a \in Addresses}

\* messages of the errors a collaborator throws
ErrorTexts == {"ECONNRESET", "PERMISSION_DENIED"}

Env(fails, resolve) == [fails |-> fails, resolve |-> resolve, error |-> "ECONNRESET"]

\* inbound chat texts; NULL is an update without text (a photo, a sticker)
Texts ==
    {cmdStart, cmdShow, cmdChange, cmdStop, cmdHelp, cmdUnknown,
     textYes, Addr1Checksum, Addr2, NameEth, NotAnAddress, NULL}

Request(ens, message, alertType) ==
    [ens |-> ens, message |-> message, alertType |-> alertType, ip |-> ClientIp]

\* alert requests of the endpoint specification
AlertRequests ==
    {Request(Addr1, maxMessageLength, maxAlertTypeLength),
     Request(Addr1, 0, 1),
     Request(Addr1, 1, 0),
     Request(Addr1, maxMessageLength + 1, 1),
     Request(Addr1, 1, maxAlertTypeLength + 1),
     Request(Addr1, maxMessageLength + 1, maxAlertTypeLength + 1),
     Request(NULL, 1, 1),
     Request(NotAnAddress, maxMessageLength + 1, 1),
     Request(NotAnAddress, 0, 1),
     Request(Addr2, 1, 1),
     Request(NameEth, 1, 1),
     Request(Addr1Checksum, 1, 1)}

Token1 == <<"A", "B", "C", "1", "2", "3">>
BadToken == <<"a", "b", "c">>

TokenRequest(token, message, alertType) ==
    [token |-> token, message |-> message, alertType |-> alertType, ip |-> ClientIp]

\* alert requests of the token API
TokenRequests ==
    {TokenRequest(Token1, 1, 1),
     TokenRequest(Token1, 0, 1),
     TokenRequest(Token1, maxMessageLength + 1, 1),
     TokenRequest(BadToken, 1, 1),
     TokenRequest(NULL, 1, 1)}

\* what getChatIdByToken answers: no chat, or the chat the token is bound to
TokenAnswers == {NoChat} \cup Chats

TokenEnv(fails, chat) == [fails |-> fails, chat |-> chat, error |-> "ECONNRESET"]

\* the answers resolveName may give for this identifier
AnswersFor(identifier) ==
    IF identifier # NULL /\ isENS(trim(identifier)) THEN ResolveAnswers ELSE {NULL}

---------------------------------------------------------------------------
(* State machine *)

\* the process state the handlers work on; calls, handler and response are what
\* handling one event produces
Machine ==
    [store |-> store,
     pendingRegistrations |-> pendingRegistrations,
     pendingChanges |-> pendingChanges,
     pendingDeletions |-> pendingDeletions,
     hits |-> hits,
     running |-> running,
     bot |-> TRUE,
     calls |-> <<>>,
     handler |-> "",
     response |-> NoResponse]

\* the process state of the token API
TokenMachine == [Machine EXCEPT !.hits = tokenHits]

Commit(m) ==
    /\ store' = m.store
    /\ pendingRegistrations' = m.pendingRegistrations
    /\ pendingChanges' = m.pendingChanges
    /\ pendingDeletions' = m.pendingDeletions
    /\ hits' = m.hits
    /\ running' = m.running

\* the service after main() has started it on an empty collection
Init ==
    /\ store = EmptyMap
    /\ pendingRegistrations = EmptyMap
    /\ pendingChanges = EmptyMap
    /\ pendingDeletions = EmptyMap
    /\ hits = EmptyMap
    /\ now = 0
    /\ running = TRUE
    /\ optedOut = {}
    /\ passed = EmptyMap
    /\ variant = "ens"
    /\ tokenHits = EmptyMap
    /\ tokenPassed = EmptyMap
    /\ tasks = <<>>
    /\ base = "fresh"
    /\ Untouched

\* the service, in either variant, started on a collection that holds one
\* registration
InitAlert ==
    /\ store = saveAddress(EmptyMap, NULL, Addr1, 1, 0)
    /\ pendingRegistrations = EmptyMap
    /\ pendingChanges = EmptyMap
    /\ pendingDeletions = EmptyMap
    /\ hits = EmptyMap
    /\ now = 0
    /\ running = TRUE
    /\ optedOut = {}
    /\ passed = EmptyMap
    /\ variant \in {"ens", "token"}
    /\ tokenHits = EmptyMap
    /\ tokenPassed = EmptyMap
    /\ tasks = <<>>
    /\ base = "fresh"
    /\ Untouched

\* the environments explored for one chat update
UpdateEnvs(m, chatId, text, t) ==
    {Env(f, r) :
        f \in UNION {Fails(Len(processUpdate(m, Env(NoFails, a), chatId, text, t).calls)) :
                        a \in AnswersFor(text)},
        r \in AnswersFor(text)}

\* the environments explored for one alert request
AlertEnvs(m, req, t) ==
    {Env(f, r) :
        f \in UNION {Fails(Len(postAlert(m, Env(NoFails, a), req, t).calls)) :
                        a \in AnswersFor(req.ens)},
        r \in AnswersFor(req.ens)}

\* did the handler issue this call, and did it return normally
Did(m, op, text, chatId) ==
    \E i \in 1..Len(m.calls) :
        /\ m.calls[i].op = op
        /\ m.calls[i].text = text
        /\ m.calls[i].chatId = chatId
        /\ m.calls[i].ok

\* an inbound chat update is dispatched to the bot's listeners
Update(chatId, text, env) ==
    /\ running
    /\ \E m \in {processUpdate(Machine, env, chatId, text, now)} :
           /\ Commit(m)
           /\ optedOut' = IF Did(m, "sendMessage", "opted_out", chatId)
                          THEN optedOut \cup {chatId}
                          ELSE IF Did(m, "saveAddress", "", chatId)
                          THEN optedOut \ {chatId}
                          ELSE optedOut
    /\ UNCHANGED <<now, passed, variant, tokenHits, tokenPassed, tasks, base, elsewhere>>

\* is the window of this key's history record still open
WindowOpen(key) == MapHas(passed, key) /\ now < passed[key].start + windowMs

\* POST /api/alert
PostAlert(req, env) ==
    /\ running
    /\ variant = "ens"
    /\ \E m \in {postAlert(Machine, env, req, now)} :
           LET key == keyGenerator(req)
               window == IF WindowOpen(key) THEN passed[key] ELSE [start |-> now, n |-> 0]
           IN  /\ Commit(m)
               /\ passed' = MapSet(passed, key,
                                   [window EXCEPT !.n = IF m.response.status = 429 THEN @ ELSE @ + 1])
    /\ UNCHANGED <<now, optedOut, variant, tokenHits, tokenPassed, tasks, base, elsewhere>>

\* is the window of this key's history record of the token API still open
TokenWindowOpen(key) ==
    MapHas(tokenPassed, key) /\ now < tokenPassed[key].start + tokenWindowMs

\* POST /api/alert of the token API
PostTokenAlert(req, env) ==
    /\ running
    /\ variant = "token"
    /\ \E m \in {tokenPostAlert(TokenMachine, env, req, now)} :
           LET key == tokenKeyGenerator(req)
               window == IF TokenWindowOpen(key) THEN tokenPassed[key]
                         ELSE [start |-> now, n |-> 0]
           IN  /\ tokenHits' = m.hits
               /\ tokenPassed' = MapSet(tokenPassed, key,
                                        [window EXCEPT !.n = IF m.response.status = 429
                                                             THEN @ ELSE @ + 1])
    /\ UNCHANGED <<store, pendingRegistrations, pendingChanges, pendingDeletions,
                   hits, now, running, optedOut, passed, variant, tasks, base, elsewhere>>

\* hits a key has in its current window
hitsOf(key) ==
    IF MapHas(hits, key) /\ ~(hits[key].resetTime <= now) THEN hits[key].totalHits ELSE 0

\* time passes
Advance ==
    /\ now < MaxTicks * HalfWindow
    /\ now' = now + HalfWindow
    /\ UNCHANGED <<hits, store, pendingRegistrations, pendingChanges, pendingDeletions,
                   running, optedOut, passed, variant, tokenHits, tokenPassed, tasks, base, elsewhere>>

ChatUpdate ==
    \E chatId \in Chats, text \in Texts :
        \E env \in UpdateEnvs(Machine, chatId, text, now) : Update(chatId, text, env)

Next == ChatUpdate

Spec == Init /\ [][Next]_vars

\* the path initializeBot stores in webhook mode
WebhookPath == <<"/", "w">>

\* a request body that is not an update object
NotAnUpdate == [object |-> FALSE, chatId |-> 0, text |-> <<>>]

\* request bodies of the webhook route
Updates == [object : {TRUE}, chatId : Chats, text : Texts] \cup {NotAnUpdate}

\* POST to the webhook path: the update reaches the bot through the route
WebhookPost(update, env) ==
    /\ running
    /\ \E m \in {webhookPost(Machine, env, WebhookPath, update, now)} :
           /\ Commit(m)
           /\ optedOut' = IF Did(m, "sendMessage", "opted_out", update.chatId)
                          THEN optedOut \cup {update.chatId}
                          ELSE IF Did(m, "saveAddress", "", update.chatId)
                          THEN optedOut \ {update.chatId}
                          ELSE optedOut
    /\ UNCHANGED <<now, passed, variant, tokenHits, tokenPassed, tasks, base, elsewhere>>

WebhookUpdate ==
    \E update \in Updates :
        \E env \in IF update.object
                    THEN UpdateEnvs(Machine, update.chatId, update.text, now)
                    ELSE {Env({}, NULL)} :
            WebhookPost(update, env)

NextWebhook == WebhookUpdate

\* the service started with a webhook URL: updates arrive by POST
SpecWebhook == Init /\ [][NextWebhook]_vars

---------------------------------------------------------------------------
(* The registration store on its own: saves and deletes at server times *)

\* server clock readings after the first
MaxClock == 2

\* names a save is called with: none, the empty string, a name
SavedNames == {NULL, <<>>, NameEth}

Save(ens, address, chatId) ==
    /\ store' = saveAddress(store, ens, address, chatId, now)
    /\ UNCHANGED <<pendingRegistrations, pendingChanges, pendingDeletions, hits, now,
                   running, optedOut, passed, variant, tokenHits, tokenPassed, tasks, base, elsewhere>>

Delete(address) ==
    /\ store' = deleteAddress(store, address)
    /\ UNCHANGED <<pendingRegistrations, pendingChanges, pendingDeletions, hits, now,
                   running, optedOut, passed, variant, tokenHits, tokenPassed, tasks, base, elsewhere>>

\* FieldValue.serverTimestamp() moves on between writes
Tick ==
    /\ now < MaxClock
    /\ now' = now + 1
    /\ UNCHANGED <<store, pendingRegistrations, pendingChanges, pendingDeletions, hits,
                   running, optedOut, passed, variant, tokenHits, tokenPassed, tasks, base, elsewhere>>

Saves == \E ens \in SavedNames, address \in Addresses, chatId \in Chats : Save(ens, address, chatId)

Deletes == \E address \in Addresses : Delete(address)

NextStore == Saves \/ Deletes \/ Tick

SpecStore == Init /\ [][NextStore]_vars

---------------------------------------------------------------------------
(* The identifier functions on their own *)

\* how often normalizeAddress is applied in a row
MaxApplications == 2

\* characters of the strings typed: hex letters in both cases, a digit, a
\* letter that is no hex digit
TypedChars == {"a", "B", "0", "g"}

\* strings handed to normalizeAddress: with and without the 0x prefix, every
\* case pattern, valid and invalid; null; a name
Typed ==
    {prefix \o [i \in 1..AddressDigits |-> digits[i]] :
        prefix \in {<<>>, <<"0", "x">>}, digits \in [1..AddressDigits -> TypedChars]}
    \cup {NULL, NameEth, Addr1Checksum, Addr1BadChecksum, <<>>}

Type(string) ==
    /\ applied = <<>>
    /\ raw' = string
    /\ applied' = <<normalizeAddress(string)>>
    /\ UNCHANGED <<store, pendingRegistrations, pendingChanges, pendingDeletions, hits, now,
                   running, optedOut, passed, variant, tokenHits, tokenPassed, tasks, base,
                   responses, tokens, startup>>

\* normalizeAddress applied to its own result
Renormalize ==
    /\ applied # <<>>
    /\ Len(applied) < MaxApplications
    /\ applied' = Append(applied, normalizeAddress(applied[Len(applied)]))
    /\ UNCHANGED <<store, pendingRegistrations, pendingChanges, pendingDeletions, hits, now,
                   running, optedOut, passed, variant, tokenHits, tokenPassed, tasks, base,
                   raw, responses, tokens, startup>>

Types == \E string \in Typed : Type(string)

NextInput == Types \/ Renormalize

SpecInput == Init /\ [][NextInput]_vars

\* the limiter keys that requests of the endpoint specification count against
HitKeys == {Addr1, NotAnAddress, ClientIp}

\* one key at a time is driven to the limit and MaxOver requests past it; the
\* other keys are counted once per window
MayHit(key) ==
    /\ key \in HitKeys
    /\ \/ hitsOf(key) = 0
       \/ /\ hitsOf(key) < max + MaxOver
          /\ \A k \in DOMAIN hits \ {key} : hits[k].totalHits <= 1

\* The handler of an alert request catches every failure and writes nothing but
\* the limiter's hit count, so the successor state is the same whatever the
\* collaborators answer; the claims quantify over AlertEnvs in every state.
AlertPost ==
    \E req \in AlertRequests :
        /\ MayHit(keyGenerator(req))
        /\ \E a \in AnswersFor(req.ens) : PostAlert(req, Env(NoFails, a))

\* hits a key of the token API has in its current window
tokenHitsOf(key) ==
    IF MapHas(tokenHits, key) /\ ~(tokenHits[key].resetTime <= now)
    THEN tokenHits[key].totalHits ELSE 0

\* as MayHit, for the keys of the token API
TokenMayHit(key) ==
    \/ tokenHitsOf(key) = 0
    \/ /\ tokenHitsOf(key) < tokenMax + MaxOver
       /\ \A k \in DOMAIN tokenHits \ {key} : tokenHits[k].totalHits <= 1

TokenAlertPost ==
    \E req \in TokenRequests :
        /\ TokenMayHit(tokenKeyGenerator(req))
        /\ \E c \in TokenAnswers : PostTokenAlert(req, TokenEnv(NoFails, c))

NextAlert == AlertPost \/ TokenAlertPost \/ Advance

SpecAlert == InitAlert /\ [][NextAlert]_vars

---------------------------------------------------------------------------
(* Claims *)

\* the documents bound to a chat
recordsOf(st, chatId) == {k \in DOMAIN st : st[k].chatId = chatId}

\* the pending flows a chat is in
pendingFlows(m, chatId) ==
    (IF MapHas(m.pendingRegistrations, chatId) THEN {"registration"} ELSE {})
    \cup (IF MapHas(m.pendingChanges, chatId) THEN {"change"} ELSE {})
    \cup (IF MapHas(m.pendingDeletions, chatId) THEN {"deletion"} ELSE {})

\* C1: in every reachable state of the registration store, at most one
\* registration record has a given chatId.
C1_OneRegistrationPerChat ==
    \A chatId \in Chats : Cardinality(recordsOf(store, chatId)) <= 1

\* C2: in every reachable state a chat is a key of at most one of
\* pendingRegistrations, pendingChanges and pendingDeletions.
C2_OnePendingFlow ==
    \A chatId \in Chats : Cardinality(pendingFlows(Machine, chatId)) <= 1


\* the texts a chat sends as a freeform reply
FreeTexts == {textYes, textY, Addr1Checksum, Addr2, NameEth, NotAnAddress}

\* every collaborator call succeeds and resolveName answers a
OkEnv(a) == Env(NoFails, a)

\* the process state a handler left, as the next event finds it
After(m) == [m EXCEPT !.calls = <<>>, !.handler = "", !.response = NoResponse]

---------------------------------------------------------------------------
(* Interleaved handlers                                                      *)
(* Every listener and the route handler are async functions: each runs up to *)
(* its first await when its event is dispatched, and from one await to the   *)
(* next when the awaited call returns; between two awaits nothing else runs. *)
(* tasks holds one record per listener call and per alert request, with pc   *)
(* the await it is suspended in ("done" once it returned). A collaborator    *)
(* call takes effect when it returns; a call either returns or stays pending *)
(* for ever (stalled). Calls that throw are explored by Spec and SpecAlert.  *)

\* updates and alert requests that arrive in one run
MaxArrivals == 2

\* calls that never return in one run
MaxStalled == 1

\* what provider.resolveName answers in these runs
AsyncAnswer == getChecksumAddress(Addr2)

NoRequest == Request(NULL, 0, 0)

\* a listener call (kind "message" or "command") or an alert request ("alert")
\* of arrival number update; ens, address, old, to and totalHits are the local
\* variables the function holds across its awaits
Task(update, kind, chatId, text, req) ==
    [update |-> update, kind |-> kind, chatId |-> chatId, text |-> text, req |-> req,
     pc |-> "done", ens |-> NULL, address |-> NULL, old |-> NULL, to |-> NoChat,
     totalHits |-> 0, status |-> 0, stalled |-> FALSE]

Await(task, pc) == [task EXCEPT !.pc = pc]

Step(m, task) == [m |-> m, task |-> task]

\* handleIdentifierInput up to its first await
beginIdentifierInput(m, task) ==
    IF task.text = NULL \/ task.text = <<>> THEN Step(m, Await(task, "reply"))
    ELSE IF isENS(trim(task.text))
    THEN Step(m, [task EXCEPT !.pc = "reg.resolving", !.ens = trim(task.text)])
    ELSE IF normalizeAddress(trim(task.text)) = NULL THEN Step(m, Await(task, "reply"))
    ELSE Step(m, [task EXCEPT !.pc = "reg.save",
                              !.address = normalizeAddress(trim(task.text))])

\* handleAddressChange up to its first await; oldInfo is read before it
beginAddressChange(m, task) ==
    IF task.text = NULL \/ task.text = <<>> THEN Step(m, Await(task, "reply"))
    ELSE IF ~MapHas(m.pendingChanges, task.chatId) THEN Step(m, Await(task, "reply"))
    ELSE IF isENS(trim(task.text))
    THEN Step(m, [task EXCEPT !.pc = "chg.resolving", !.ens = trim(task.text),
                              !.old = m.pendingChanges[task.chatId].oldAddress])
    ELSE IF normalizeAddress(trim(task.text)) = NULL THEN Step(m, Await(task, "reply"))
    ELSE Step(m, [task EXCEPT !.pc = "chg.delete",
                              !.address = normalizeAddress(trim(task.text)),
                              !.old = m.pendingChanges[task.chatId].oldAddress])

\* handleDeletionConfirmation up to its first await; response.trim() on a
\* missing text throws into the catch block
beginDeletionConfirmation(m, task) ==
    IF ~MapHas(m.pendingDeletions, task.chatId) THEN Step(m, Await(task, "reply"))
    ELSE IF task.text # NULL /\ isConfirmation(task.text)
    THEN Step(m, [task EXCEPT !.pc = "del.delete",
                              !.old = m.pendingDeletions[task.chatId].address])
    ELSE Step([m EXCEPT !.pendingDeletions = MapDelete(@, task.chatId)],
              Await(task, "reply"))

\* bot.on('message') up to its first await
beginMessage(m, task) ==
    IF task.text # NULL /\ startsWith(task.text, <<"/">>)
    THEN IF ~\E i \in 1..Len(knownCommands) : startsWith(task.text, knownCommands[i])
         THEN Step(m, Await(task, "reply"))
         ELSE Step(m, task)
    ELSE IF MapHas(m.pendingDeletions, task.chatId) THEN beginDeletionConfirmation(m, task)
    ELSE IF MapHas(m.pendingChanges, task.chatId) THEN beginAddressChange(m, task)
    ELSE IF MapHas(m.pendingRegistrations, task.chatId) THEN beginIdentifierInput(m, task)
    ELSE Step(m, task)

\* an onText callback up to its first await: getAddressByChatId, or the reply
\* of /help
beginCommand(task, cmd) ==
    Await(task, IF cmd = cmdStart THEN "start.get"
                ELSE IF cmd = cmdShow THEN "show.get"
                ELSE IF cmd = cmdChange THEN "change.get"
                ELSE IF cmd = cmdStop THEN "stop.get"
                ELSE "reply")

\* TelegramBot.processUpdate: the 'message' listener and then the onText
\* callbacks whose pattern matches are called; none is awaited
dispatch(m, update, chatId, text) ==
    LET first == beginMessage(m, Task(update, "message", chatId, text, NoRequest))
        commands == SelectSeq(knownCommands, LAMBDA cmd : onTextMatches(m, text, cmd))
    IN  [m |-> first.m,
         tasks |-> <<first.task>> \o
                   [i \in 1..Len(commands) |->
                       beginCommand(Task(update, "command", chatId, text, NoRequest),
                                    commands[i])]]

\* an onText callback after getAddressByChatId returned
resumeCommand(m, task) ==
    LET info == getAddressByChatId(m.store, task.chatId)
    IN  IF task.pc = "start.get" /\ ~info.exists
        THEN Step([m EXCEPT !.pendingRegistrations = MapSet(@, task.chatId, TRUE)],
                  Await(task, "reply"))
        ELSE IF task.pc = "change.get" /\ info.exists
        THEN Step([m EXCEPT !.pendingChanges =
                       MapSet(@, task.chatId, [oldAddress |-> info.docId,
                                               oldEns |-> info.ens])],
                  Await(task, "reply"))
        ELSE IF task.pc = "stop.get" /\ info.exists
        THEN Step([m EXCEPT !.pendingDeletions =
                       MapSet(@, task.chatId, [address |-> info.docId, ens |-> info.ens])],
                  Await(task, "reply"))
        ELSE Step(m, Await(task, "reply"))

\* a registration that, once saved, forgets every chat that was asked for its
\* identifier
resumeIdentifierInputClearsAll(m, task, t) ==
    IF task.pc = "reg.resolving" THEN Step(m, Await(task, "reg.resolve"))
    ELSE IF task.pc = "reg.resolve"
    THEN IF resolveENS(FALSE, AsyncAnswer) = NULL THEN Step(m, Await(task, "reply"))
         ELSE Step(m, [task EXCEPT !.pc = "reg.save",
                                   !.address = resolveENS(FALSE, AsyncAnswer)])
    ELSE Step([m EXCEPT !.store = saveAddress(@, task.ens, task.address, task.chatId, t),
                        !.pendingRegistrations = EmptyMap],
              Await(task, "reply"))

\* handleIdentifierInput after the call it awaits returned
resumeIdentifierInput(m, task, t) ==
    IF task.pc = "reg.resolving" THEN Step(m, Await(task, "reg.resolve"))
    ELSE IF task.pc = "reg.resolve"
    THEN IF resolveENS(FALSE, AsyncAnswer) = NULL THEN Step(m, Await(task, "reply"))
         ELSE Step(m, [task EXCEPT !.pc = "reg.save",
                                   !.address = resolveENS(FALSE, AsyncAnswer)])
    ELSE Step([m EXCEPT !.store = saveAddress(@, task.ens, task.address, task.chatId, t),
                        !.pendingRegistrations = MapDelete(@, task.chatId)],
              Await(task, "reply"))

\* handleAddressChange after the call it awaits returned
resumeAddressChange(m, task, t) ==
    IF task.pc = "chg.resolving" THEN Step(m, Await(task, "chg.resolve"))
    ELSE IF task.pc = "chg.resolve"
    THEN IF resolveENS(FALSE, AsyncAnswer) = NULL THEN Step(m, Await(task, "reply"))
         ELSE Step(m, [task EXCEPT !.pc = "chg.delete",
                                   !.address = resolveENS(FALSE, AsyncAnswer)])
    ELSE IF task.pc = "chg.delete"
    THEN Step([m EXCEPT !.store = deleteAddress(@, task.old)], Await(task, "chg.save"))
    ELSE Step([m EXCEPT !.store = saveAddress(@, task.ens, task.address, task.chatId, t),
                        !.pendingChanges = MapDelete(@, task.chatId)],
              Await(task, "reply"))

\* handleDeletionConfirmation after deleteAddress returned
resumeDeletionConfirmation(m, task) ==
    Step([m EXCEPT !.store = deleteAddress(@, task.old),
                   !.pendingDeletions = MapDelete(@, task.chatId)],
         Await(task, "reply"))

Answer(task, status) == [task EXCEPT !.pc = "done", !.status = status]

\* a limiter that looks the count up and leaves the counting for later
beginAlertUncounted(m, task, t) ==
    Step(m, [task EXCEPT !.pc = "limit",
                         !.totalHits = increment(m.hits, keyGenerator(task.req),
                                                 t)[keyGenerator(task.req)].totalHits])

\* the limiter middleware up to its await: store.increment(key) counts the
\* request and answers the count this request got
beginAlert(m, task, t) ==
    Step([m EXCEPT !.hits = increment(@, keyGenerator(task.req), t)],
         [task EXCEPT !.pc = "limit",
                      !.totalHits = increment(m.hits, keyGenerator(task.req),
                                              t)[keyGenerator(task.req)].totalHits])

\* the limiter's decision on the count it was given, then the route handler
\* from one await to the next
resumeAlert(m, task) ==
    IF task.pc = "limit"
    THEN IF task.totalHits > max THEN Step(m, Answer(task, 429))
         ELSE IF \/ task.req.ens = NULL \/ task.req.ens = <<>>
                 \/ task.req.message = 0 \/ task.req.alertType = 0
                 \/ ~isValidIdentifier(task.req.ens)
                 \/ task.req.message > maxMessageLength
                 \/ task.req.alertType > maxAlertTypeLength
         THEN Step(m, Answer(task, 400))
         ELSE IF isENS(task.req.ens) THEN Step(m, Await(task, "alert.resolve"))
         ELSE IF normalizeAddress(task.req.ens) = NULL THEN Step(m, Answer(task, 404))
         ELSE Step(m, [task EXCEPT !.pc = "alert.get",
                                   !.address = normalizeAddress(task.req.ens)])
    ELSE IF task.pc = "alert.resolve"
    THEN IF resolveENS(FALSE, AsyncAnswer) = NULL THEN Step(m, Answer(task, 404))
         ELSE Step(m, [task EXCEPT !.pc = "alert.get",
                                   !.address = resolveENS(FALSE, AsyncAnswer)])
    ELSE IF task.pc = "alert.get"
    THEN IF docChatId(m.store, task.address) = NoChat THEN Step(m, Answer(task, 404))
         ELSE Step(m, [task EXCEPT !.pc = "alert.send",
                                   !.to = docChatId(m.store, task.address)])
    ELSE Step(m, Answer(task, 200))

\* the function a task belongs to continues after the call it awaits returned
resume(m, task, t) ==
    IF task.kind = "alert" THEN resumeAlert(m, task)
    ELSE IF task.pc = "reply" THEN Step(m, Await(task, "done"))
    ELSE IF task.pc \in {"start.get", "show.get", "change.get", "stop.get"}
    THEN resumeCommand(m, task)
    ELSE IF task.pc \in {"reg.resolving", "reg.resolve", "reg.save"}
    THEN resumeIdentifierInput(m, task, t)
    ELSE IF task.pc = "del.delete" THEN resumeDeletionConfirmation(m, task)
    ELSE resumeAddressChange(m, task, t)

\* an event loop that runs one handler at a time, to its end
mayResumeInTurn(ts, i) ==
    /\ ts[i].pc # "done"
    /\ ~ts[i].stalled
    /\ \A j \in 1..(i - 1) : ts[j].pc = "done"

\* the event loop runs the continuation of every call that returned, whatever
\* other calls are still pending
mayResume(ts, i) == ts[i].pc # "done" /\ ~ts[i].stalled

\* chat texts and alert requests of the interleaved runs
AsyncTexts == {cmdStart, cmdChange, cmdStop, textYes, Addr1Checksum, Addr2, NameEth}

AsyncRequests == {Request(Addr1, 1, 1)}

\* the hits store after n >= 1 requests of one key were counted at time t: the
\* record the first increment created, counted up to n
counted(key, n, t) == [increment(EmptyMap, key, t) EXCEPT ![key].totalHits = n]

FreshMachine ==
    [store |-> EmptyMap,
     pendingRegistrations |-> EmptyMap,
     pendingChanges |-> EmptyMap,
     pendingDeletions |-> EmptyMap,
     hits |-> EmptyMap,
     running |-> TRUE,
     bot |-> TRUE,
     calls |-> <<>>,
     handler |-> "",
     response |-> NoResponse]

\* the state one update, handled alone with every call returning, leaves
Handled(m, chatId, text) ==
    CHOOSE after \in {After(processUpdate(m, OkEnv(AsyncAnswer), chatId, text, 0))} : TRUE

\* states the service reaches handling updates one at a time, from which the
\* interleaved runs start: chat 1 was asked for its identifier; it registered
\* Addr1; it then sent /change; it sent /stop instead; or max - 1 alerts for
\* Addr1 were counted
BaseNames == {"fresh", "registering", "registered", "changing", "stopping", "quota"}

BaseState(name) ==
    LET registering == Handled(FreshMachine, 1, cmdStart)
        registered == Handled(registering, 1, Addr1Checksum)
    IN  IF name = "fresh" THEN FreshMachine
        ELSE IF name = "registering" THEN registering
        ELSE IF name = "registered" THEN registered
        ELSE IF name = "changing" THEN Handled(registered, 1, cmdChange)
        ELSE IF name = "stopping" THEN Handled(registered, 1, cmdStop)
        ELSE [registered EXCEPT !.hits = counted(Addr1, max - 1, 0)]

InitAsync ==
    /\ base \in BaseNames
    /\ \E m \in {BaseState(base)} :
           /\ store = m.store
           /\ pendingRegistrations = m.pendingRegistrations
           /\ pendingChanges = m.pendingChanges
           /\ pendingDeletions = m.pendingDeletions
           /\ hits = m.hits
    /\ now = 0
    /\ running = TRUE
    /\ optedOut = {}
    /\ passed = IF base = "quota" THEN MapSet(EmptyMap, Addr1, [start |-> 0, n |-> max - 1])
                ELSE EmptyMap
    /\ variant = "ens"
    /\ tokenHits = EmptyMap
    /\ tokenPassed = EmptyMap
    /\ tasks = <<>>
    /\ Untouched

\* updates and alert requests that arrived so far
Arrivals == IF tasks = <<>> THEN 0 ELSE tasks[Len(tasks)].update

\* an inbound update is dispatched to the bot's listeners
ArriveUpdate(chatId, text) ==
    /\ running
    /\ Arrivals < MaxArrivals
    /\ \E d \in {dispatch(Machine, Arrivals + 1, chatId, text)} :
           /\ Commit(d.m)
           /\ tasks' = tasks \o d.tasks
    /\ UNCHANGED <<now, optedOut, passed, variant, tokenHits, tokenPassed, base, elsewhere>>

\* POST /api/alert enters the limiter
ArriveAlert(req) ==
    /\ running
    /\ Arrivals < MaxArrivals
    /\ \E r \in {beginAlert(Machine, Task(Arrivals + 1, "alert", NoChat, req.ens, req), now)} :
           /\ Commit(r.m)
           /\ tasks' = Append(tasks, r.task)
    /\ UNCHANGED <<now, optedOut, passed, variant, tokenHits, tokenPassed, base, elsewhere>>

\* the call task i awaits returns and its function runs to its next await
Return(i) ==
    /\ running
    /\ i \in DOMAIN tasks
    /\ mayResume(tasks, i)
    /\ \E r \in {resume(Machine, tasks[i], now)} :
           /\ Commit(r.m)
           /\ tasks' = [tasks EXCEPT ![i] = r.task]
           /\ optedOut' = IF tasks[i].pc = "del.delete" THEN optedOut \cup {tasks[i].chatId}
                          ELSE IF tasks[i].pc \in {"reg.save", "chg.save"}
                          THEN optedOut \ {tasks[i].chatId}
                          ELSE optedOut
           /\ passed' = IF tasks[i].pc = "limit"
                        THEN LET key == keyGenerator(tasks[i].req)
                                 window == IF WindowOpen(key) THEN passed[key]
                                           ELSE [start |-> now, n |-> 0]
                             IN  MapSet(passed, key,
                                        [window EXCEPT !.n = IF r.task.status = 429
                                                             THEN @ ELSE @ + 1])
                        ELSE passed
    /\ UNCHANGED <<now, variant, tokenHits, tokenPassed, base, elsewhere>>

\* the call task i awaits never returns
Stall(i) ==
    /\ i \in DOMAIN tasks
    /\ tasks[i].pc # "done"
    /\ ~tasks[i].stalled
    /\ Cardinality({j \in DOMAIN tasks : tasks[j].stalled}) < MaxStalled
    /\ tasks' = [tasks EXCEPT ![i].stalled = TRUE]
    /\ UNCHANGED <<store, pendingRegistrations, pendingChanges, pendingDeletions, hits,
                   now, running, optedOut, passed, variant, tokenHits, tokenPassed, base, elsewhere>>

\* listener calls and requests one run can hold: the 'message' listener and one
\* onText callback per update
TaskIds == 1..(2 * MaxArrivals)

UpdateArrives == \E chatId \in Chats, text \in AsyncTexts : ArriveUpdate(chatId, text)

AlertArrives == \E req \in AsyncRequests : ArriveAlert(req)

CallReturns == \E i \in TaskIds : Return(i)

CallStalls == \E i \in TaskIds : Stall(i)

NextAsync == UpdateArrives \/ AlertArrives \/ CallReturns \/ CallStalls

SpecAsync == InitAsync /\ [][NextAsync]_vars

\* Node's event loop runs the continuation of every call that has returned
SpecAsyncLive == SpecAsync /\ \A i \in TaskIds : WF_vars(Return(i))


\* the flow a command starts for a chat, "" when it starts none
startedBy(st, chatId, cmd) ==
    LET registered == getAddressByChatId(st, chatId).exists
    IN  IF cmd = cmdStart /\ ~registered THEN "registration"
        ELSE IF cmd = cmdChange /\ registered THEN "change"
        ELSE IF cmd = cmdStop /\ registered THEN "deletion"
        ELSE ""

\* C3: when a chat that has a pending flow sends a command that starts a flow,
\* afterwards the chat's only pending state is the one the new command started
\* and the chat's next freeform message is handled by that flow.
C3_LastCommandWins ==
    \A chatId \in Chats, cmd \in {cmdStart, cmdChange, cmdStop} :
        (running /\ pendingFlows(Machine, chatId) # {} /\ startedBy(store, chatId, cmd) # "") =>
            \A m \in {processUpdate(Machine, OkEnv(NULL), chatId, cmd, now)} :
                /\ pendingFlows(m, chatId) = {startedBy(store, chatId, cmd)}
                /\ \A text \in FreeTexts :
                       onMessage(After(m), OkEnv(NULL), chatId, text, now).handler
                           = startedBy(store, chatId, cmd)

\* the address an identifier stands for when resolveName answers a
addressOf(identifier, a) ==
    IF isENS(trim(identifier)) THEN resolveENS(FALSE, a) ELSE normalizeAddress(trim(identifier))

\* C4: a chat whose only registration is A sends /change and then an identifier
\* that resolves to B # A, every collaborator call succeeding: afterwards the
\* store has no record keyed A, has a record keyed B bound to the chat, and the
\* chat has no pending change.
C4_ChangeReplacesRegistration ==
    \A chatId \in Chats, A \in Addresses, text \in FreeTexts :
        \A a \in AnswersFor(text) :
            (/\ running
             /\ recordsOf(store, chatId) = {A}
             /\ addressOf(text, a) \notin {NULL, A}) =>
                \A m1 \in {processUpdate(Machine, OkEnv(NULL), chatId, cmdChange, now)} :
                    \A m2 \in {processUpdate(After(m1), OkEnv(a), chatId, text, now)} :
                        /\ ~MapHas(m2.store, A)
                        /\ MapHas(m2.store, addressOf(text, a))
                        /\ m2.store[addressOf(text, a)].chatId = chatId
                        /\ ~MapHas(m2.pendingChanges, chatId)

\* the message, trimmed and lower-cased, equals "y" or "yes"
saysYes(text) == toLowerCase(trim(text)) \in {<<"y">>, <<"y", "e", "s">>}

\* the handler deleted the document with this key
deleted(m, key) ==
    \E i \in 1..Len(m.calls) :
        m.calls[i].op = "deleteAddress" /\ m.calls[i].key = key /\ m.calls[i].ok

\* the store's delete call did not throw
deleteSucceeds(m) ==
    \A i \in 1..Len(m.calls) : m.calls[i].op = "deleteAddress" => m.calls[i].ok

sentTo(m, chatId) ==
    \E i \in 1..Len(m.calls) : m.calls[i].op = "sendMessage" /\ m.calls[i].chatId = chatId

\* C6: after a chat confirmed /stop and received the opt-out confirmation, and
\* until it registers again, no alert request causes a send to that chat.
C6_NoAlertAfterOptOut ==
    \A chatId \in optedOut, req \in AlertRequests :
        \A env \in AlertEnvs(Machine, req, now) :
            \A m \in {postAlert(Machine, env, req, now)} : running => ~sentTo(m, chatId)

\* requests of this key that passed the limiter in the key's current window
passedBy(key) == IF WindowOpen(key) THEN passed[key].n ELSE 0

\* the same for a key of the token API
tokenPassedBy(key) == IF TokenWindowOpen(key) THEN tokenPassed[key].n ELSE 0

\* the handler issued a send
sends(m) == \E i \in 1..Len(m.calls) : m.calls[i].op = "sendMessage"

\* C7: for every key and every window at most the configured maximum of
\* requests pass the limiter (max in the identifier API, tokenMax in the token
\* API); the request after the maximum-th of a key inside the window is
\* answered 429 and causes no send call.
C7_AtMostMaxPerWindow ==
    /\ \A key \in DOMAIN passed : passed[key].n <= max
    /\ \A req \in AlertRequests :
           (running /\ passedBy(keyGenerator(req)) = max) =>
               \A a \in AnswersFor(req.ens) :
                   \A m \in {postAlert(Machine, OkEnv(a), req, now)} :
                       m.response.status = 429 /\ ~sends(m)
    /\ \A key \in DOMAIN tokenPassed : tokenPassed[key].n <= tokenMax
    /\ \A req \in TokenRequests :
           (running /\ tokenPassedBy(tokenKeyGenerator(req)) = tokenMax) =>
               \A c \in TokenAnswers :
                   \A m \in {tokenPostAlert(TokenMachine, TokenEnv(NoFails, c), req, now)} :
                       m.response.status = 429 /\ ~sends(m)

\* max requests of a key passed in its open window and a further one was counted
C7_Witness ==
    \E key \in DOMAIN passed :
        /\ WindowOpen(key)
        /\ passed[key].n = max
        /\ hitsOf(key) > max

\* C8: once the window duration (windowMs, tokenWindowMs) has elapsed since the
\* first counted request of a key, the next request of that key is accepted by
\* the limiter, also when the quota of the previous window was exhausted.
C8_WindowResets ==
    /\ \A req \in AlertRequests :
           (/\ running
            /\ MapHas(passed, keyGenerator(req))
            /\ now >= passed[keyGenerator(req)].start + windowMs) =>
               \A a \in AnswersFor(req.ens) :
                   \A m \in {postAlert(Machine, OkEnv(a), req, now)} :
                       /\ m.response.status # 429
                       /\ m.hits[keyGenerator(req)].totalHits = 1
    /\ \A req \in TokenRequests :
           (/\ running
            /\ MapHas(tokenPassed, tokenKeyGenerator(req))
            /\ now >= tokenPassed[tokenKeyGenerator(req)].start + tokenWindowMs) =>
               \A c \in TokenAnswers :
                   \A m \in {tokenPostAlert(TokenMachine, TokenEnv(NoFails, c), req, now)} :
                       /\ m.response.status # 429
                       /\ m.hits[tokenKeyGenerator(req)].totalHits = 1

\* a key exhausted its quota, was refused, and its window has since elapsed
C8_Witness ==
    \E req \in AlertRequests :
        LET key == keyGenerator(req)
        IN  /\ MapHas(passed, key) /\ MapHas(hits, key)
            /\ passed[key].n = max
            /\ hits[key].totalHits > max
            /\ now >= passed[key].start + windowMs
            /\ postAlert(Machine, OkEnv(NULL), req, now).response.status # 429

\* the first of checks 1-4 a request fails, 0 when it passes them all
failedCheck(req) ==
    IF req.ens = NULL \/ req.ens = <<>> \/ req.message = 0 \/ req.alertType = 0 THEN 1
    ELSE IF ~isValidIdentifier(req.ens) THEN 2
    ELSE IF req.message > 1000 THEN 3
    ELSE IF req.alertType > 100 THEN 4
    ELSE 0

\* the error each check answers with
checkError ==
    <<"Missing required fields", "Invalid identifier format", "Message too long",
      "Alert type too long">>

\* the identifier of a request that passed checks 1-4 has no registration,
\* resolveName answering a
notRegistered(req, a) ==
    LET address == IF isENS(req.ens) THEN resolveENS(FALSE, a) ELSE normalizeAddress(req.ens)
    IN  address = NULL \/ ~MapHas(store, address)

\* C9: in the identifier API, for a request whose quota is not exhausted the response is fixed by the
\* first failing check, in the order missing field, invalid identifier, message
\* too long, alert type too long, identifier not registered (whatever
\* resolveName answers for a name), and nothing is looked up or sent after a
\* failed check.
C9_ValidationOrder ==
    variant = "ens" =>
    \A req \in AlertRequests :
        \A a \in AnswersFor(req.ens) :
            \A m \in {postAlert(Machine, OkEnv(a), req, now)} :
                (running /\ m.response.status # 429) =>
                    /\ failedCheck(req) # 0 =>
                           /\ m.response = [status |-> 400, error |-> checkError[failedCheck(req)]]
                           /\ m.calls = <<>>
                    /\ (failedCheck(req) = 0 /\ notRegistered(req, a)) =>
                           /\ m.response = [status |-> 404, error |-> "Identifier not found"]
                           /\ ~sends(m)

\* keys that have been counted have quota left: a request fails each of the
\* checks and one is for an identifier that is not registered
C9_Witness ==
    /\ running
    /\ \A k \in 1..4 :
           \E req \in AlertRequests :
               /\ failedCheck(req) = k
               /\ hitsOf(keyGenerator(req)) > 0
               /\ postAlert(Machine, OkEnv(NULL), req, now).response.status = 400
    /\ \E req \in AlertRequests :
           /\ failedCheck(req) = 0
           /\ notRegistered(req, NULL)
           /\ postAlert(Machine, OkEnv(NULL), req, now).response.status = 404

\* C10 as stated: in the identifier API a request that fails one of checks 1-4 is answered 400
\* whatever the rate-limit state of its key, and 429 is returned only to
\* requests that passed checks 1-4.
C10_RateLimitIsFifthStep ==
    variant = "ens" =>
    \A req \in AlertRequests :
        \A a \in AnswersFor(req.ens) :
            \A m \in {postAlert(Machine, OkEnv(a), req, now)} :
                running =>
                    /\ failedCheck(req) # 0 => m.response.status = 400
                    /\ m.response.status = 429 => failedCheck(req) = 0

\* C10: in the identifier API the rate-limit check is the first step: a request whose key has used up
\* its quota is answered 429 whether or not it passes checks 1-4, and a request
\* that fails one of checks 1-4 is answered 400 only while its key has quota
\* left.
C10_RateLimitIsFirstStep ==
    variant = "ens" =>
    \A req \in AlertRequests :
        \A a \in AnswersFor(req.ens) :
            \A m \in {postAlert(Machine, OkEnv(a), req, now)} :
                running =>
                    /\ passedBy(keyGenerator(req)) = max =>
                           /\ m.response = [status |-> 429, error |-> limitMessage]
                           /\ m.calls = <<>>
                    /\ (passedBy(keyGenerator(req)) < max /\ failedCheck(req) # 0) =>
                           m.response.status = 400

\* a request that fails one of checks 1-4 arrives when its key has used up its
\* quota, and is answered 429
C10_Witness ==
    \E req \in AlertRequests :
        /\ running
        /\ failedCheck(req) # 0
        /\ passedBy(keyGenerator(req)) = max
        /\ postAlert(Machine, OkEnv(NULL), req, now).response.status = 429

\* the address getChatIdByIdentifier looks up for a request: resolveName throws
\* (thrown) or answers a
lookedUp(req, thrown, a) ==
    IF isENS(req.ens) THEN resolveENS(thrown, a) ELSE normalizeAddress(req.ens)

\* collaborator outcomes of an alert request in which only resolveName may throw
ResolveEnv(req, thrown, a) == Env(IF thrown /\ isENS(req.ens) THEN {1} ELSE NoFails, a)

\* C11: a request with all fields valid and quota remaining whose identifier
\* resolves to no registration (an unknown address, a name that fails to
\* resolve or resolves to an unregistered address) is answered 404
\* 'Identifier not found' and causes no send call.
C11_UnknownIdentifierIs404 ==
    \A req \in AlertRequests :
        \A a \in AnswersFor(req.ens), thrown \in BOOLEAN :
            (/\ running
             /\ failedCheck(req) = 0
             /\ hitsOf(keyGenerator(req)) < max
             /\ \/ lookedUp(req, thrown, a) = NULL
                \/ ~MapHas(store, lookedUp(req, thrown, a))) =>
                \A m \in {postAlert(Machine, ResolveEnv(req, thrown, a), req, now)} :
                    /\ m.response = [status |-> 404, error |-> "Identifier not found"]
                    /\ ~sends(m)

\* the store holds a registration, and requests for an address and for a name
\* that resolves to an address it does not hold are answered 404
C11_Witness ==
    /\ running
    /\ store # EmptyMap
    /\ \E req \in AlertRequests, a \in Addresses :
           /\ failedCheck(req) = 0
           /\ isENS(req.ens)
           /\ ~MapHas(store, a)
           /\ postAlert(Machine, OkEnv(getChecksumAddress(a)), req, now).response.status = 404
    /\ \E req \in AlertRequests :
           /\ failedCheck(req) = 0
           /\ ~isENS(req.ens)
           /\ ~MapHas(store, normalizeAddress(req.ens))
           /\ postAlert(Machine, OkEnv(NULL), req, now).response.status = 404

\* the chats the handler's send calls were addressed to, in call order
sendsOf(m) ==
    LET sent == SelectSeq(m.calls, LAMBDA c : c.op = "sendMessage")
    IN  [i \in 1..Len(sent) |-> sent[i].chatId]

\* the hex digits of an address in upper case
upperDigits(address) ==
    <<"0", "x">> \o [i \in 1..Len(address) - 2 |-> UpperChar(address[i + 2])]

\* the letters of an address in the opposite case
flipCase(address) ==
    <<"0", "x">> \o [i \in 1..Len(address) - 2 |->
                        IF address[i + 2] \in UpperHexLetters THEN LowerChar(address[i + 2])
                        ELSE UpperChar(address[i + 2])]

\* spellings of an address that differ in letter case only: lower case, upper
\* case, the EIP-55 form, and the EIP-55 form with every letter flipped
Spellings(address) ==
    {address, upperDigits(address), getChecksumAddress(address),
     flipCase(getChecksumAddress(address))}

\* the addresses a chat types when it registers
TypedAddresses == {Addr1Checksum, Addr1Upper, Addr2}

\* C12 as stated: after a chat registered an address through the registration
\* flow, an alert request carrying that address in any letter case is answered
\* 200 and causes exactly one send call, addressed to that chat.
C12_AnyCaseDelivers ==
    \A chatId \in DOMAIN pendingRegistrations, text \in TypedAddresses :
        running =>
            \A m \in {processUpdate(Machine, OkEnv(NULL), chatId, text, now)} :
                m.handler = "registration" =>
                    \A spelling \in Spellings(toLowerCase(text)) :
                        \A r \in {postAlert(After(m), OkEnv(NULL), Request(spelling, 1, 1), now)} :
                            /\ r.response.status = 200
                            /\ sendsOf(r) = <<chatId>>

\* C12: after a chat registered an address through the registration flow, an
\* alert request carrying that address in a letter case normalizeAddress
\* accepts (all letters lower case, all upper case, or the EIP-55 form) is
\* answered 200 and causes exactly one send call, addressed to that chat; in a
\* mixed case that is not the EIP-55 form it is answered 400 and nothing is
\* sent.
C12_AcceptedCaseDelivers ==
    \A chatId \in DOMAIN pendingRegistrations, text \in TypedAddresses :
        running =>
            \A m \in {processUpdate(Machine, OkEnv(NULL), chatId, text, now)} :
                m.handler = "registration" =>
                    \A spelling \in Spellings(toLowerCase(text)) :
                        \A r \in {postAlert(After(m), OkEnv(NULL), Request(spelling, 1, 1), now)} :
                            IF IsMixedCase(spelling) /\ spelling # getChecksumAddress(spelling)
                            THEN /\ r.response = [status |-> 400,
                                                  error |-> "Invalid identifier format"]
                                 /\ sendsOf(r) = <<>>
                            ELSE /\ r.response.status = 200
                                 /\ sendsOf(r) = <<chatId>>

\* a chat that awaits its identifier types an address in EIP-55 form; the
\* registration flow saves it, and a request in lower case reaches the chat
C12_Witness ==
    \E chatId \in DOMAIN pendingRegistrations :
        /\ running
        /\ \E m \in {processUpdate(Machine, OkEnv(NULL), chatId, Addr1Checksum, now)} :
               /\ m.handler = "registration"
               /\ MapHas(m.store, Addr1) /\ m.store[Addr1].ens = NULL
               /\ Addr1Checksum # Addr1
               /\ sendsOf(postAlert(After(m), OkEnv(NULL), Request(Addr1, 1, 1), now))
                      = <<chatId>>

\* a send call of the handler threw
sendFailed(m) ==
    \E i \in 1..Len(m.calls) : m.calls[i].op = "sendMessage" /\ ~m.calls[i].ok

\* the handler left the process state as it found it, the limiter's count aside
keepsNothing(m) ==
    /\ m.store = store
    /\ m.pendingRegistrations = pendingRegistrations
    /\ m.pendingChanges = pendingChanges
    /\ m.pendingDeletions = pendingDeletions
    /\ m.running = running

\* which one collaborator call throws, if any, of a handler that issues at most
\* n calls
OneFails(n) == {{}} \cup {{i} : i \in 1..n}

\* collaborator outcomes of an alert request: resolveName (for a name), the
\* document lookup or the send throws, or none does
OneFailEnvs(req) ==
    IF failedCheck(req) # 0 THEN {OkEnv(NULL)}
    ELSE {Env(f, a) : f \in OneFails(IF isENS(req.ens) THEN 3 ELSE 2),
                      a \in AnswersFor(req.ens)}

\* collaborator outcomes of a request of the token API: the token lookup or the
\* send throws, or none does
TokenEnvs == {TokenEnv(f, c) : f \in OneFails(2), c \in TokenAnswers}

\* C13: every alert request causes at most one send attempt, and none when it
\* is answered 400, 404 or 429; after a send that failed the request is
\* answered 500 without a second attempt, and nothing of the request is kept
\* for later.
C13_AtMostOneSendAttempt ==
    /\ (running /\ variant = "ens") =>
           \A req \in AlertRequests :
               \A env \in OneFailEnvs(req) :
                   \A m \in {postAlert(Machine, env, req, now)} :
                       /\ Len(sendsOf(m)) <= 1
                       /\ m.response.status \in {400, 404, 429} => sendsOf(m) = <<>>
                       /\ sendFailed(m) => m.response.status = 500
                       /\ keepsNothing(m)
    /\ (running /\ variant = "token") =>
           \A req \in TokenRequests :
               \A env \in TokenEnvs :
                   \A m \in {tokenPostAlert(TokenMachine, env, req, now)} :
                       /\ Len(sendsOf(m)) <= 1
                       /\ m.response.status \in {400, 404, 429} => sendsOf(m) = <<>>
                       /\ sendFailed(m) => m.response.status = 500
                       /\ keepsNothing(m)

\* requests have been counted, one key has used up its quota, and for a key
\* with quota left the one send of a valid request throws
C13_Witness ==
    /\ running
    /\ variant = "ens"
    /\ \E key \in DOMAIN hits : hitsOf(key) >= max
    /\ \E req \in AlertRequests :
           \E m \in {postAlert(Machine, Env({2}, NULL), req, now)} :
               /\ hitsOf(keyGenerator(req)) > 0
               /\ sendFailed(m)
               /\ Len(sendsOf(m)) = 1
               /\ m.response.status = 500

\* every collaborator call of the handler returned
allOk(m) == \A i \in 1..Len(m.calls) : m.calls[i].ok

\* C14: an alert request is answered 200 only when its one send call, addressed
\* to the chat of the document looked up, returned; when the send throws, or
\* while the bot is not initialized, it is answered 500.
C14_SuccessOnlyAfterSend ==
    running =>
        \A req \in AlertRequests :
            /\ \A env \in OneFailEnvs(req) :
                   \A m \in {postAlert(Machine, env, req, now)} :
                       /\ m.response.status = 200 =>
                              /\ allOk(m)
                              /\ sendsOf(m) = <<docChatId(store, lookedUp(req, FALSE, env.resolve))>>
                              /\ sendsOf(m) # <<NoChat>>
                       /\ sendFailed(m) => m.response.status = 500
            /\ \A a \in AnswersFor(req.ens) :
                   \A m \in {postAlert([Machine EXCEPT !.bot = FALSE], OkEnv(a), req, now)} :
                       /\ m.response.status # 200
                       /\ sendsOf(m) = <<>>
                       /\ (failedCheck(req) = 0 /\ ~notRegistered(req, a)) =>
                              m.response.status = 500

\* a registered identifier's request is answered 200 when its send returns and
\* 500 when it throws
C14_Witness ==
    /\ running
    /\ \E req \in AlertRequests, a \in ResolveAnswers :
           /\ isENS(req.ens)
           /\ postAlert(Machine, OkEnv(a), req, now).response.status = 200
           /\ postAlert(Machine, Env({3}, a), req, now).response.status = 500
           /\ sendFailed(postAlert(Machine, Env({3}, a), req, now))

\* the address a freeform message stands for: resolveName throws (thrown) or
\* answers a; NULL when the message is no valid address, or a name that does
\* not resolve
addressTyped(text, thrown, a) ==
    IF text = NULL \/ text = <<>> THEN NULL
    ELSE IF isENS(trim(text)) THEN resolveENS(thrown, a)
    ELSE normalizeAddress(trim(text))

\* collaborator outcomes of a freeform message in which only resolveName (the
\* handler's second call, after the 'resolving' reply) may throw
TypedEnv(text, thrown, a) ==
    Env(IF thrown /\ text # NULL /\ isENS(trim(text)) THEN {2} ELSE NoFails, a)

\* freeform messages: spellings of addresses, a name, and texts that are neither
TypedTexts ==
    {Addr1Checksum, Addr1Upper, Addr2, NameEth, NotAnAddress, Addr1BadChecksum, textYes, NULL}

Aliases == {NULL, NameEth}

\* C16: after saveAddress(ens, address, chatId) on a store that holds no other
\* record of the chat, getAddressByChatId(chatId) returns a registration with
\* that ens and address, and getChatIdByIdentifier(address) returns chatId.
C16_SaveRoundTrip ==
    \A ens \in Aliases, address \in Addresses, chatId \in Chats :
        recordsOf(store, chatId) \subseteq {address} =>
            \A st \in {saveAddress(store, ens, address, chatId, now)} :
                /\ getAddressByChatId(st, chatId)
                       = [exists |-> TRUE, ens |-> ens, address |-> address, docId |-> address]
                /\ getChatIdByIdentifier(st, address, FALSE, NULL) = chatId

\* a save for a chat without a record, under an address that another chat's
\* record is keyed by, while the store holds a further record
C16_Witness ==
    \E address \in Addresses, chatId \in Chats :
        /\ recordsOf(store, chatId) = {}
        /\ MapHas(store, address)
        /\ Cardinality(DOMAIN store) = 2
        /\ getAddressByChatId(saveAddress(store, NameEth, address, chatId, now), chatId).ens
               = NameEth

\* the replies the handlers sent, in order: [text, key, chatId]
repliesOf(m) ==
    LET sent == SelectSeq(m.calls, LAMBDA c : c.op = "sendMessage")
    IN  [i \in 1..Len(sent) |->
            [text |-> sent[i].text, key |-> sent[i].key, chatId |-> sent[i].chatId]]

ReplyTo(chatId, text, key) == [text |-> text, key |-> key, chatId |-> chatId]

\* the pending states of the chats other than chatId are those of the state
othersKept(m, chatId) ==
    \A c \in Chats \ {chatId} : pendingFlows(m, c) = pendingFlows(Machine, c)

\* the reply of each command to a chat that is not registered
replyUnregistered(cmd) ==
    IF cmd = cmdStart THEN "ask_identifier"
    ELSE IF cmd = cmdStop THEN "nothing_to_delete"
    ELSE "not_registered"

\* C17: for a chat with no registration and no pending flow, /start puts the
\* chat in the pending registrations; /show, /change and /stop reply that the
\* chat is not registered and create no pending state; none of the four
\* modifies the store.
C17_CommandsWhenUnregistered ==
    \A chatId \in Chats, cmd \in {cmdStart, cmdShow, cmdChange, cmdStop} :
        (/\ running
         /\ recordsOf(store, chatId) = {}
         /\ pendingFlows(Machine, chatId) = {}) =>
            \A m \in {processUpdate(Machine, OkEnv(NULL), chatId, cmd, now)} :
                /\ m.store = store
                /\ pendingFlows(m, chatId) = IF cmd = cmdStart THEN {"registration"} ELSE {}
                /\ repliesOf(m) = <<ReplyTo(chatId, replyUnregistered(cmd), NULL)>>
                /\ othersKept(m, chatId)

\* a chat that deleted its registration is idle again while the other chat is
\* registered, and /start opens a registration for it
C17_Witness ==
    /\ running
    /\ \E chatId \in optedOut :
           /\ recordsOf(store, chatId) = {}
           /\ pendingFlows(Machine, chatId) = {}
           /\ store # EmptyMap
           /\ MapHas(processUpdate(Machine, OkEnv(NULL), chatId, cmdStart, now).pendingRegistrations,
                     chatId)

\* the reply of each command to a chat that is registered
replyRegistered(cmd) ==
    IF cmd = cmdStart THEN "welcome_back"
    ELSE IF cmd = cmdShow THEN "your_identifier"
    ELSE IF cmd = cmdChange THEN "ask_new_identifier"
    ELSE "confirm_stop"

\* C18: for a chat with a registration and no pending flow, /start and /show
\* reply with the current identifier and create no pending state; /change
\* creates a pending change and /stop a pending deletion, each capturing the
\* key and the name of the record getAddressByChatId returns; none of the
\* four modifies the store.
C18_CommandsWhenRegistered ==
    \A chatId \in Chats, cmd \in {cmdStart, cmdShow, cmdChange, cmdStop} :
        (/\ running
         /\ recordsOf(store, chatId) # {}
         /\ pendingFlows(Machine, chatId) = {}) =>
            \A info \in {getAddressByChatId(store, chatId)} :
                \A m \in {processUpdate(Machine, OkEnv(NULL), chatId, cmd, now)} :
                    /\ m.store = store
                    /\ info.docId \in recordsOf(store, chatId)
                    /\ info.ens = store[info.docId].ens
                    /\ repliesOf(m) = <<ReplyTo(chatId, replyRegistered(cmd), identifierOf(info))>>
                    /\ othersKept(m, chatId)
                    /\ cmd \in {cmdStart, cmdShow} => pendingFlows(m, chatId) = {}
                    /\ cmd = cmdChange =>
                           /\ pendingFlows(m, chatId) = {"change"}
                           /\ m.pendingChanges[chatId]
                                  = [oldAddress |-> info.docId, oldEns |-> info.ens]
                    /\ cmd = cmdStop =>
                           /\ pendingFlows(m, chatId) = {"deletion"}
                           /\ m.pendingDeletions[chatId]
                                  = [address |-> info.docId, ens |-> info.ens]

\* a chat registered under a name is idle, and /change captures the address
\* and the name of its record
C18_Witness ==
    /\ running
    /\ \E chatId \in Chats :
           /\ pendingFlows(Machine, chatId) = {}
           /\ \E k \in recordsOf(store, chatId) : store[k].ens = NameEth
           /\ processUpdate(Machine, OkEnv(NULL), chatId, cmdChange, now).pendingChanges[chatId].oldEns
                  = NameEth

\* the message listener takes the text for a command it does not know
unrecognized(text) ==
    /\ startsWith(text, <<"/">>)
    /\ ~\E i \in 1..Len(knownCommands) : startsWith(text, knownCommands[i])

\* slash commands the bot does not offer, two of them with further words
UnknownCommands ==
    {cmdUnknown, cmdUnknown \o <<" ">> \o cmdStop, cmdUnknown \o <<" ">> \o cmdStart}

\* C19: an unrecognized slash command is answered with the unknown-command
\* reply and with nothing else, and the pending maps and the store are the
\* same before and after.
C19_UnknownCommandChangesNothing ==
    \A chatId \in Chats, text \in UnknownCommands :
        (running /\ unrecognized(text)) =>
            \A m \in {processUpdate(Machine, OkEnv(NULL), chatId, text, now)} :
                /\ repliesOf(m) = <<ReplyTo(chatId, "unknown_command", NULL)>>
                /\ m.store = store
                /\ m.pendingRegistrations = pendingRegistrations
                /\ m.pendingChanges = pendingChanges
                /\ m.pendingDeletions = pendingDeletions

\* C20: no failure of a collaborator call made while a chat message or an
\* alert request is handled terminates the process.
C20_FailuresNeverTerminate ==
    running =>
        /\ \A chatId \in Chats, text \in Texts :
               \A env \in UpdateEnvs(Machine, chatId, text, now) :
                   processUpdate(Machine, env, chatId, text, now).running
        /\ \A req \in AlertRequests :
               \A env \in AlertEnvs(Machine, req, now) :
                   postAlert(Machine, env, req, now).running

\* the same collaborator outcomes, the error thrown carrying another message
Throwing(env, error) == [env EXCEPT !.error = error]

\* collaborator outcomes of an alert request in which one call throws
FailingEnvs(req) == {env \in OneFailEnvs(req) : env.fails # {}}

\* C22: the response of POST /api/alert does not depend on the message of the
\* error a collaborator throws: two runs that differ only in that message
\* answer alike, and a failed lookup or send is answered with the fixed 500
\* body, in the identifier API and in the token API.
C22_ResponseIgnoresErrorText ==
    running =>
        /\ \A req \in AlertRequests :
               \A env \in FailingEnvs(req) :
                   \A m \in {postAlert(Machine, env, req, now)} :
                       /\ \A e \in ErrorTexts \ {env.error} :
                              postAlert(Machine, Throwing(env, e), req, now).response = m.response
                       /\ m.response.status = 500 => m.response.error = "Internal server error"
                       /\ m.response.error \notin ErrorTexts
        /\ \A req \in TokenRequests :
               \A env \in {t \in TokenEnvs : t.fails # {}} :
                   \A m \in {tokenPostAlert(TokenMachine, env, req, now)} :
                       /\ \A e \in ErrorTexts \ {env.error} :
                              tokenPostAlert(TokenMachine, Throwing(env, e), req, now).response
                                  = m.response
                       /\ m.response.status = 500 => m.response.error = "Internal server error"
                       /\ m.response.error \notin ErrorTexts

\* the store holds a registration whose lookup succeeds and whose send throws:
\* the handler saw the error's message and answered 500
C22_Witness ==
    /\ running
    /\ \E req \in AlertRequests :
           \E m \in {postAlert(Machine, Throwing(Env({2}, NULL), "PERMISSION_DENIED"), req, now)} :
               /\ sendFailed(m)
               /\ thrownBy(m) = "PERMISSION_DENIED"
               /\ m.response.status = 500

\* the identifier of a request as it was submitted, the client's address when
\* there is none
rawKey(req) == IF req.ens = NULL \/ req.ens = <<>> THEN req.ip ELSE req.ens

\* the alert requests that differ in the key they are counted under, and one
\* the validation rejects
KeyedRequests ==
    {req \in AlertRequests :
        \/ <<req.message, req.alertType>> = <<1, 1>>
        \/ <<req.message, req.alertType>> = <<0, 1>>
        \/ <<req.message, req.alertType>> = <<maxMessageLength, maxAlertTypeLength>>}

\* C23: the limiter's counters are keyed by the identifier as submitted and are
\* independent: a request changes the counter of its own key only, and whether
\* it is answered 429 depends on that counter only, so two spellings of one
\* registered address each have their own quota.
C23_CountersKeyedByRawIdentifier ==
    (running /\ variant = "ens") =>
        \A req \in KeyedRequests :
            \A a \in AnswersFor(req.ens) :
                \A m \in {postAlert(Machine, OkEnv(a), req, now)} :
                    /\ DOMAIN m.hits = DOMAIN hits \cup {rawKey(req)}
                    /\ \A k \in DOMAIN hits \ {rawKey(req)} : m.hits[k] = hits[k]
                    /\ m.hits[rawKey(req)].totalHits = hitsOf(rawKey(req)) + 1
                    /\ m.response.status = 429 <=> hitsOf(rawKey(req)) >= max

\* the lower-case spelling of a registered address has used up its quota, and
\* a request with the checksum spelling of the same address is delivered
C23_Witness ==
    /\ running
    /\ variant = "ens"
    /\ hitsOf(Addr1) > max
    /\ MapHas(store, Addr1)
    /\ Addr1Checksum # Addr1
    /\ \E m \in {postAlert(Machine, OkEnv(NULL), Request(Addr1Checksum, 1, 1), now)} :
           /\ m.response.status = 200
           /\ m.hits[Addr1Checksum].totalHits = 1
           /\ m.hits[Addr1] = hits[Addr1]

\* outcomes of the calls of the handlers an update starts: all return, the
\* first throws, or the first and the apology after it throw
HandlerEnvs == {OkEnv(NULL), Env({1}, NULL), Env({1, 2}, NULL)}

\* C24: the webhook route exists only if a webhook path was set; it answers 200
\* whenever processWebhookUpdate returns, whatever the handlers the update
\* started do, and 500 only when processWebhookUpdate throws.
C24_WebhookAnswersByProcessUpdate ==
    running =>
        \A update \in Updates, env \in HandlerEnvs :
            /\ \A r \in {webhookPost(Machine, env, WebhookPath, update, now)} :
                   /\ r.response.status = IF update.object THEN 200 ELSE 500
                   /\ ~update.object => r.calls = <<>>
            /\ ~update.object => processWebhookUpdate(Machine, env, update, now).threw
            /\ webhookPost(Machine, env, NULL, update, now).response.status = 404
            /\ webhookPost([Machine EXCEPT !.bot = FALSE], env, WebhookPath, update,
                           now).response.status = 404
            /\ processWebhookUpdate([Machine EXCEPT !.bot = FALSE], env, update, now).threw

\* an update whose handler fails, and whose apology fails too so that the
\* process exits, was answered 200 by the webhook route
C24_Witness ==
    /\ running
    /\ store # EmptyMap
    /\ \E c \in Chats :
           \E r \in {webhookPost(Machine, Env({1, 2}, NULL), WebhookPath,
                                  [object |-> TRUE, chatId |-> c, text |-> cmdShow],
                                  now)} :
               /\ r.response.status = 200
               /\ ~r.running

\* positions of the calls of one operation in a handler's call log
callsOf(m, op) == {i \in 1..Len(m.calls) : m.calls[i].op = op}

\* the handler ended with the reply that reports the change
reportsChange(m) ==
    /\ m.running
    /\ m.calls[Len(m.calls)].op = "sendMessage"
    /\ m.calls[Len(m.calls)].text = "changed"
    /\ m.calls[Len(m.calls)].ok

\* C25: in the change flow every save is preceded by a completed delete of the
\* old address and no delete follows a save; when the new identifier gives the
\* old address again and the calls return, the chat ends with a record under
\* that address and the reply reports the change.
C25_DeleteBeforeSave ==
    running =>
        \A c \in DOMAIN pendingChanges, text \in Texts :
            \A a \in AnswersFor(text), f \in OneFails(4) :
                \A m \in {handleAddressChange(Machine, Env(f, a), c, text, now)} :
                    /\ \A j \in callsOf(m, "saveAddress") :
                           /\ \E i \in callsOf(m, "deleteAddress") :
                                  /\ i < j
                                  /\ m.calls[i].ok
                                  /\ m.calls[i].key = pendingChanges[c].oldAddress
                           /\ \A i \in callsOf(m, "deleteAddress") : i < j
                           /\ (f = {} /\ m.calls[j].key = pendingChanges[c].oldAddress) =>
                                  /\ MapHas(m.store, pendingChanges[c].oldAddress)
                                  /\ m.store[pendingChanges[c].oldAddress].chatId = c
                                  /\ m.store[pendingChanges[c].oldAddress].address
                                         = pendingChanges[c].oldAddress
                                  /\ reportsChange(m)
                    /\ (f = {} /\ text # NULL /\ (a # NULL \/ normalizeAddress(trim(text)) # NULL)) =>
                           callsOf(m, "saveAddress") # {}

\* a chat in the change flow supplies an identifier that gives its old address
C25_Witness ==
    /\ running
    /\ \E c \in DOMAIN pendingChanges :
           /\ pendingChanges[c].oldAddress = Addr1
           /\ MapHas(store, Addr1)
           /\ \E text \in {Addr1Checksum, NameEth} :
                  \E m \in {handleAddressChange(Machine, OkEnv(getChecksumAddress(Addr1)),
                                                 c, text, now)} :
                      /\ callsOf(m, "saveAddress") # {}
                      /\ MapHas(m.store, Addr1)
                      /\ m.store[Addr1].chatId = c
                      /\ reportsChange(m)

\* C29: the lookup of a name gives the chat of the record keyed by the address
\* the name resolves to at the time of the call, and nothing when the
\* resolution fails or that address has no record; the names stored in the
\* records play no part, and an alert sent to the name goes where the lookup
\* points.
C29_NameLookupFollowsResolution ==
    running =>
        \A a \in ResolveAnswers, thrown \in BOOLEAN :
            \A r \in {getChatIdByIdentifier(store, NameEth, thrown, a)} :
                /\ (thrown \/ a = NULL) => r = NoChat
                /\ (~thrown /\ a # NULL) =>
                       r = IF MapHas(store, toLowerCase(a))
                           THEN store[toLowerCase(a)].chatId ELSE NoChat
                /\ \A m \in {alertLookupAndSend(Machine,
                                                 Env(IF thrown THEN {1} ELSE NoFails, a),
                                                 NameEth)} :
                       IF r = NoChat
                       THEN m.response.status = 404 /\ sendsOf(m) = <<>>
                       ELSE m.response.status = 200 /\ sendsOf(m) = <<r>>

\* a record carries the name as its alias, the name now resolves to another
\* address, and the lookup gives the chat registered under that address
C29_Witness ==
    /\ running
    /\ \E k \in DOMAIN store, j \in DOMAIN store :
           /\ store[k].ens = NameEth
           /\ j # k
           /\ store[j].chatId # store[k].chatId
           /\ getChatIdByIdentifier(store, NameEth, FALSE, getChecksumAddress(j))
                  = store[j].chatId

\* the record is stored under its own address, in canonical lower case
storedCanonically(st, k) ==
    /\ st[k].address = k
    /\ toLowerCase(k) = k
    /\ normalizeAddress(k) = k

\* C30: every record of the collection is stored under a key equal to its
\* address field, and the key is the canonical lower-case address, whether the
\* registration flow or the change flow wrote it, with or without a name.
C30_RecordsKeyedByCanonicalAddress ==
    /\ \A k \in DOMAIN store : storedCanonically(store, k)
    /\ running =>
           \A a \in ResolveAnswers \ {NULL} :
               /\ \A c \in DOMAIN pendingRegistrations :
                      \A m \in {handleIdentifierInput(Machine, OkEnv(a), c, NameEth, now)} :
                          /\ MapHas(m.store, toLowerCase(a))
                          /\ \A k \in DOMAIN m.store : storedCanonically(m.store, k)
               /\ \A c \in DOMAIN pendingChanges :
                      \A m \in {handleAddressChange(Machine, OkEnv(a), c, NameEth, now)} :
                          /\ MapHas(m.store, toLowerCase(a))
                          /\ \A k \in DOMAIN m.store : storedCanonically(m.store, k)

\* the collection holds a record with a name and one without, and a chat in
\* the change flow that sends an address in checksum form gets a record under
\* the lower-case address
C30_Witness ==
    /\ running
    /\ \E k \in DOMAIN store, j \in DOMAIN store : store[k].ens = NameEth /\ store[j].ens = NULL
    /\ \E c \in DOMAIN pendingChanges :
           /\ pendingChanges[c].oldAddress # Addr1
           /\ \E m \in {handleAddressChange(Machine, OkEnv(NULL), c, Addr1Checksum, now)} :
                  /\ MapHas(m.store, Addr1)
                  /\ m.store[Addr1].chatId = c
                  /\ m.store[Addr1].ens = NULL

\* every listener call and every request has returned
Quiet == \A i \in DOMAIN tasks : tasks[i].pc = "done"

\* the first task of arrival number u: the 'message' listener or the request
ArrivalOf(u) == tasks[CHOOSE i \in DOMAIN tasks : tasks[i].update = u /\ tasks[i].kind # "command"]

\* the entry a map has for a chat, if any
PendingOf(map, chatId) == IF MapHas(map, chatId) THEN <<map[chatId]>> ELSE <<>>

\* the store and the pending state of a chat are those of m
SameFor(m, chatId) ==
    /\ store = m.store
    /\ PendingOf(pendingRegistrations, chatId) = PendingOf(m.pendingRegistrations, chatId)
    /\ PendingOf(pendingChanges, chatId) = PendingOf(m.pendingChanges, chatId)
    /\ PendingOf(pendingDeletions, chatId) = PendingOf(m.pendingDeletions, chatId)

\* C26: when two messages of one chat have been handled, their handlers
\* interleaved in any way, the store and the chat's pending state are those
\* that handling the two messages one after the other, in one of the two orders,
\* gives.
C26_ConcurrentEqualsSequential ==
    (/\ Quiet
     /\ Arrivals = 2
     /\ ArrivalOf(1).kind = "message"
     /\ ArrivalOf(2).kind = "message"
     /\ ArrivalOf(1).chatId = ArrivalOf(2).chatId) =>
        \E b \in {BaseState(base)}, order \in {<<1, 2>>, <<2, 1>>} :
            SameFor(Handled(Handled(b, ArrivalOf(1).chatId, ArrivalOf(order[1]).text),
                            ArrivalOf(1).chatId, ArrivalOf(order[2]).text),
                    ArrivalOf(1).chatId)

\* the limiter has decided on this request
decided(task) == task.kind = "alert" /\ task.pc # "limit"

\* C28: two requests with the same identifier, in flight together, are counted
\* one after the other: the later one gets a higher count, one more for each
\* request of the identifier up to it, each is answered
\* 429 exactly when its own count exceeds the maximum, and when the earlier one
\* took the last unit of quota it passes and the later one is answered 429.
C28_LimiterCountsAtomically ==
    \A i \in DOMAIN tasks, j \in DOMAIN tasks :
        (/\ i < j
         /\ tasks[i].kind = "alert"
         /\ tasks[j].kind = "alert"
         /\ keyGenerator(tasks[i].req) = keyGenerator(tasks[j].req)) =>
            /\ tasks[j].totalHits = tasks[i].totalHits +
                   Cardinality({k \in (i + 1)..j :
                                   /\ tasks[k].kind = "alert"
                                   /\ keyGenerator(tasks[k].req) = keyGenerator(tasks[i].req)})
            /\ hits[keyGenerator(tasks[i].req)].totalHits >= tasks[j].totalHits
            /\ decided(tasks[i]) => (tasks[i].status = 429 <=> tasks[i].totalHits > max)
            /\ decided(tasks[j]) => (tasks[j].status = 429 <=> tasks[j].totalHits > max)
            /\ (tasks[i].totalHits = max /\ decided(tasks[i]) /\ decided(tasks[j])) =>
                   (tasks[i].status # 429 /\ tasks[j].status = 429)

\* one unit of quota was left, the first request took it and is still
\* suspended in its lookup or its send, and the second was answered 429
C28_Witness ==
    /\ base = "quota"
    /\ Len(tasks) = 2
    /\ tasks[1].kind = "alert"
    /\ tasks[1].totalHits = max
    /\ tasks[1].pc \in {"alert.get", "alert.send"}
    /\ tasks[2].kind = "alert"
    /\ tasks[2].req = tasks[1].req
    /\ tasks[2].pc = "done"
    /\ tasks[2].status = 429

\* a task is suspended in a call that never returns while another is in flight
stalledBesideOthers ==
    \E i \in DOMAIN tasks, j \in DOMAIN tasks :
        i # j /\ tasks[i].stalled /\ tasks[j].pc # "done" /\ ~tasks[j].stalled

\* every task has run to its end, but for those suspended in a call that never
\* returns
othersFinished == \A j \in DOMAIN tasks : tasks[j].pc = "done" \/ tasks[j].stalled

\* C21: while one listener call or alert request is suspended in a call that
\* never returns, the other listener calls and requests in flight run to their
\* end: the stall delays only the flow that issued the call.
C21_StallDelaysOnlyItsFlow == stalledBesideOthers ~> othersFinished

\* chat 1, changing its identifier, is suspended in a resolution that never
\* returns; an alert request that arrived after its message was delivered and
\* answered 200
C21_Witness ==
    /\ base = "changing"
    /\ Len(tasks) = 2
    /\ tasks[1].kind = "message"
    /\ tasks[1].pc = "chg.resolve"
    /\ tasks[1].stalled
    /\ tasks[2].kind = "alert"
    /\ tasks[2].pc = "done"
    /\ tasks[2].status = 200

\* the pending state m holds for a chat
entriesIn(m, chatId) ==
    <<PendingOf(m.pendingRegistrations, chatId),
      PendingOf(m.pendingChanges, chatId),
      PendingOf(m.pendingDeletions, chatId)>>

\* the tasks a step started or advanced
touched(before, after) ==
    {i \in DOMAIN after : i \notin DOMAIN before \/ after[i] # before[i]}

savedTwice(ens, address, chatId, t) ==
    saveAddress(saveAddress(store, ens, address, chatId, now), ens, address, chatId, t)

\* C31 as stated: a save applied twice leaves the store that one save leaves,
\* whenever the second save happens.
C31_SaveTwiceEqualsOnce ==
    \A ens \in SavedNames, address \in Addresses, chatId \in Chats :
        \A t \in now..MaxClock :
            savedTwice(ens, address, chatId, t) = saveAddress(store, ens, address, chatId, now)

\* C31: a save applied twice leaves, as one save does, a single record keyed
\* by the address that carries the saved name, address and chat whatever was
\* there before, and leaves every other record alone; the two stores differ at
\* most in createdAt, which is the server time of the last save. A delete of a
\* missing address leaves the store unchanged, and a delete applied twice
\* equals a delete applied once.
C31_SaveAndDeleteIdempotentByAddress ==
    /\ \A ens \in SavedNames, address \in Addresses, chatId \in Chats :
           \A t \in now..MaxClock :
               \A once \in {saveAddress(store, ens, address, chatId, now)} :
                   \A twice \in {savedTwice(ens, address, chatId, t)} :
                       /\ DOMAIN once = DOMAIN store \cup {address}
                       /\ DOMAIN twice = DOMAIN once
                       /\ \A k \in DOMAIN store \ {address} :
                              once[k] = store[k] /\ twice[k] = store[k]
                       /\ once[address] =
                              [ens |-> IF ens = NameEth THEN NameEth ELSE NULL,
                               address |-> address, chatId |-> chatId, createdAt |-> now]
                       /\ twice[address] = [once[address] EXCEPT !.createdAt = t]
    /\ \A address \in Addresses :
           /\ ~MapHas(store, address) => deleteAddress(store, address) = store
           /\ ~MapHas(deleteAddress(store, address), address)
           /\ deleteAddress(deleteAddress(store, address), address)
                  = deleteAddress(store, address)
           /\ \A k \in DOMAIN store \ {address} :
                  MapHas(deleteAddress(store, address), k)
                  /\ deleteAddress(store, address)[k] = store[k]

\* time has passed since the start, the record of one address was saved for
\* chat 2 at the current server time, and the other address is not in the store
C31_Witness ==
    /\ MapHas(store, Addr1)
    /\ store[Addr1].chatId = 2
    /\ store[Addr1].createdAt = now
    /\ now > 0
    /\ ~MapHas(store, Addr2)
    /\ saveAddress(store, store[Addr1].ens, Addr1, 2, now) = store
    /\ deleteAddress(store, Addr2) = store

\* C33: normalizeAddress is idempotent where it succeeds: applied to its own
\* result it succeeds and returns that result again.
C33_NormalizeAddressIdempotent ==
    (applied # <<>> /\ applied[1] # NULL) =>
        /\ \A i \in 1..Len(applied) : applied[i] = applied[1]
        /\ normalizeAddress(applied[Len(applied)]) = applied[1]

\* an address typed without the prefix and in upper case was normalized, and
\* normalizeAddress was applied again to the result
C33_Witness ==
    /\ ~startsWith(raw, <<"0", "x">>)
    /\ "B" \in Range(raw)
    /\ Len(applied) = MaxApplications
    /\ applied[1] # NULL
    /\ applied[1] # raw

\* identifiers with a dot of at most three characters
ShortNames == {<<".">>, <<"a", ".">>, <<"a", ".", "b">>}

\* identifiers to classify: with and without a dot, at most and more than
\* three characters long
Classified == ShortNames \cup {NameEth, <<"a", ".", "b", "c">>, <<"a", "b">>, Addr1, Addr2,
                               NotAnAddress, Addr1Checksum}

\* the handler called the name resolution
resolves(m) == callsOf(m, "resolveName") # {}

\* C32: an identifier is taken for a name exactly when it contains a dot and
\* is longer than three characters; every other identifier is taken for an
\* address, so that the registration flow sends a reply with a dot to the name
\* resolution only when it is longer than three characters.
C32_NameStyleNeedsDotAndLength ==
    running =>
        \A c \in DOMAIN pendingRegistrations, x \in Classified :
            /\ isENS(x) <=> ("." \in Range(x) /\ Len(x) > 3)
            /\ \A m \in {handleIdentifierInput(Machine, OkEnv(Addr2), c, x, now)} :
                   /\ resolves(m) <=> ("." \in Range(x) /\ Len(x) > 3)
                   /\ x \in ShortNames => m.store = store

\* the handler saved a record under this address
savedUnder(m, address) ==
    \E i \in callsOf(m, "saveAddress") : m.calls[i].key = address /\ m.calls[i].ok

\* after the handler of chat d, the address is bound to d, chat c has no
\* registration and no message went to c
rebound(m, address, c, d) ==
    /\ docChatId(m.store, address) = d
    /\ ~getAddressByChatId(m.store, c).exists
    /\ \A i \in callsOf(m, "sendMessage") : m.calls[i].chatId # c

\* C34: when a chat completes a registration or a change with an address that
\* is registered by another chat, the record is rebound to the saving chat:
\* the address is found for the saving chat, the other chat has no
\* registration any more and receives no message about it.
C34_SaveRebindsAddress ==
    running =>
        \A c \in Chats, d \in Chats, address \in DOMAIN store, text \in Texts :
            (c # d /\ store[address].chatId = c) =>
                \A a \in AnswersFor(text) :
                    /\ MapHas(pendingRegistrations, d) =>
                           \A m \in {handleIdentifierInput(Machine, OkEnv(a), d, text, now)} :
                               savedUnder(m, address) => rebound(m, address, c, d)
                    /\ MapHas(pendingChanges, d) =>
                           \A m \in {handleAddressChange(Machine, OkEnv(a), d, text, now)} :
                               savedUnder(m, address) => rebound(m, address, c, d)

---------------------------------------------------------------------------
(* The HTTP API beside the conversations: alert requests with collaborators *)
(* that fail, and health checks, from the states the interleaved runs start *)
(* from                                                                     *)

\* a key is counted once, and the key that starts one short of its quota is
\* driven MaxOver requests past it
ApiMayHit(key) ==
    \/ hitsOf(key) = 0
    \/ /\ key = Addr1
       /\ hitsOf(key) >= max - 1
       /\ hitsOf(key) < max + MaxOver

ApiAlert ==
    \E req \in AlertRequests :
        /\ ApiMayHit(keyGenerator(req))
        /\ \E env \in OneFailEnvs(req) : PostAlert(req, env)

\* GET /health
Health ==
    /\ running
    /\ \E m \in {getHealth(Machine)} : Commit(m)
    /\ UNCHANGED <<now, optedOut, passed, variant, tokenHits, tokenPassed, tasks, base,
                   elsewhere>>

NextApi == ApiAlert \/ Health

SpecApi == InitAsync /\ [][NextApi]_vars

\* a request to the same key that passes every check
validFor(req) == Request(req.ens, 1, 1)

\* C35: every alert request adds one hit to the counter of its key (the ens
\* value, or the client address without one) before any validation, whatever
\* it is answered: after a request answered 400, 404 or 500 the key has the
\* hits, and the next request the answer, it would have after a delivered one.
C35_EveryRequestConsumesQuota ==
    running =>
        \A req \in AlertRequests :
            \A env \in OneFailEnvs(req) :
                \A m \in {postAlert(Machine, env, req, now)} :
                    /\ m.response.status \in {200, 400, 404, 429, 500}
                    /\ MapHas(m.hits, rawKey(req))
                    /\ m.hits[rawKey(req)].totalHits = hitsOf(rawKey(req)) + 1
                    /\ \A k \in DOMAIN hits \ {rawKey(req)} : m.hits[k] = hits[k]
                    /\ (req.ens # NULL /\ isValidIdentifier(req.ens)) =>
                           \A a \in AnswersFor(req.ens) :
                               \A next \in {postAlert(After(m), OkEnv(a), validFor(req), now)} :
                                   /\ next.response.status = 429
                                          <=> hitsOf(rawKey(req)) + 2 > max
                                   /\ next.hits[rawKey(req)].totalHits
                                          = hitsOf(rawKey(req)) + 2

\* the key of the registered address is one short of its quota, and a request
\* for it that fails a check, one whose lookup throws and one whose send
\* throws each use up the last unit: the valid request after it is refused
C35_Witness ==
    /\ running
    /\ base = "quota"
    /\ hitsOf(Addr1) = max - 1
    /\ hitsOf(NotAnAddress) = 1
    /\ \A first \in {postAlert(Machine, OkEnv(NULL), Request(Addr1, 0, 1), now),
                       postAlert(Machine, Env({1}, NULL), Request(Addr1, 1, 1), now),
                       postAlert(Machine, Env({2}, NULL), Request(Addr1, 1, 1), now)} :
           /\ first.response.status \in {400, 500}
           /\ postAlert(After(first), OkEnv(NULL), Request(Addr1, 1, 1), now).response.status
                  = 429
    /\ postAlert(Machine, OkEnv(NULL), Request(Addr1, 1, 1), now).response.status = 200

\* the apologies of the three catch blocks
Apologies == {"sorry_start_again", "sorry_change_again", "sorry_stop_again"}

\* a store or messaging call of the handler's try block threw (a throw of
\* resolveName is caught inside resolveENS and is an answer of null to the
\* handler; the apology is sent by the catch block, outside the try block)
threw(m) ==
    \E i \in 1..Len(m.calls) :
        /\ ~m.calls[i].ok
        /\ m.calls[i].op # "resolveName"
        /\ m.calls[i].text \notin Apologies

\* the handler ended with this apology to the chat
apologised(m, chatId, text) ==
    /\ m.running
    /\ m.calls # <<>>
    /\ m.calls[Len(m.calls)].op = "sendMessage"
    /\ m.calls[Len(m.calls)].text = text
    /\ m.calls[Len(m.calls)].chatId = chatId
    /\ m.calls[Len(m.calls)].ok

\* in the change flow the delete returned and the save threw
saveThrewAfterDelete(m) ==
    /\ \E i \in callsOf(m, "deleteAddress") : m.calls[i].ok
    /\ \E i \in callsOf(m, "saveAddress") : ~m.calls[i].ok

\* the single calls that throw in a freeform handler
OneThrows == OneFails(4) \ {{}}

\* C36: when a store or messaging call throws inside a freeform-reply handler,
\* the handler removes the chat's pending entry of that flow and sends an
\* apology; in the change flow, when the delete of the old record has returned
\* and the save throws, the old record is not restored: the chat ends with no
\* registration and no pending change.
C36_ThrowEndsFlowWithApology ==
    running =>
        \A c \in Chats, text \in Texts :
            \A a \in AnswersFor(text), f \in OneThrows :
                /\ MapHas(pendingRegistrations, c) =>
                       \A m \in {handleIdentifierInput(Machine, Env(f, a), c, text, now)} :
                           threw(m) =>
                               /\ ~MapHas(m.pendingRegistrations, c)
                               /\ apologised(m, c, "sorry_start_again")
                /\ MapHas(pendingChanges, c) =>
                       \A m \in {handleAddressChange(Machine, Env(f, a), c, text, now)} :
                           /\ threw(m) =>
                                  /\ ~MapHas(m.pendingChanges, c)
                                  /\ apologised(m, c, "sorry_change_again")
                           /\ saveThrewAfterDelete(m) =>
                                  /\ ~MapHas(m.store, pendingChanges[c].oldAddress)
                                  /\ recordsOf(m.store, c) = {}
                                  /\ ~MapHas(m.pendingChanges, c)
                /\ MapHas(pendingDeletions, c) =>
                       \A m \in {handleDeletionConfirmation(Machine, Env(f, a), c, text)} :
                           threw(m) =>
                               /\ ~MapHas(m.pendingDeletions, c)
                               /\ apologised(m, c, "sorry_stop_again")

\* the store and the three pending maps of m are those of the current state
sameConversations(m) ==
    /\ m.store = store
    /\ m.pendingRegistrations = pendingRegistrations
    /\ m.pendingChanges = pendingChanges
    /\ m.pendingDeletions = pendingDeletions
    /\ m.running = running

\* C37: handling POST /api/alert or GET /health never changes the store or a
\* chat's pending conversation state, whatever the request is answered and
\* whichever collaborator call throws; an alert request changes the rate-limit
\* counter of its own key and no other counter, a health check changes none.
C37_ApiLeavesConversationsAlone ==
    running =>
        /\ \A req \in AlertRequests :
               \A env \in OneFailEnvs(req) :
                   \A m \in {postAlert(Machine, env, req, now)} :
                       /\ sameConversations(m)
                       /\ DOMAIN m.hits = DOMAIN hits \cup {keyGenerator(req)}
                       /\ \A k \in DOMAIN hits \ {keyGenerator(req)} : m.hits[k] = hits[k]
        /\ \A m \in {getHealth(Machine)} :
               /\ sameConversations(m)
               /\ m.hits = hits

\* chat 1 is registered and in the middle of a change, another key has been
\* counted, and requests for the chat's address are delivered, or answered 500
\* when the lookup or the send throws
C37_Witness ==
    /\ running
    /\ base = "changing"
    /\ MapHas(store, Addr1)
    /\ MapHas(pendingChanges, 1)
    /\ hitsOf(NotAnAddress) = 1
    /\ postAlert(Machine, OkEnv(NULL), Request(Addr1, 1, 1), now).response.status = 200
    /\ postAlert(Machine, Env({1}, NULL), Request(Addr1, 1, 1), now).response.status = 500
    /\ postAlert(Machine, Env({2}, NULL), Request(Addr1, 1, 1), now).response.status = 500
    /\ Len(postAlert(Machine, Env({2}, NULL), Request(Addr1, 1, 1), now).calls) = 2

---------------------------------------------------------------------------
(* Alert requests from arrival to response: every call a request awaits     *)
(* returns or throws, and requests are in flight together                   *)

\* alert requests in flight in one run
MaxRequests == 2

RequestIds == 1..MaxRequests

\* a registered address, a name that resolves to an address nobody registered,
\* and a request without message
LiveRequests == {Request(Addr1, 1, 1), Request(NameEth, 1, 1), Request(Addr1, 0, 1)}

\* a route whose catch block logs the error and sends nothing
throwAlertOnlyLogs(m, task) ==
    IF task.pc = "alert.resolve"
    THEN IF resolveENS(TRUE, AsyncAnswer) = NULL THEN Step(m, Answer(task, 404))
         ELSE Step(m, [task EXCEPT !.pc = "alert.get",
                                   !.address = resolveENS(TRUE, AsyncAnswer)])
    ELSE Step(m, Await(task, "done"))

\* the call an alert request awaits throws: resolveENS catches what resolveName
\* threw and answers null; what the lookup or the send threw reaches the
\* route's catch block
throwAlert(m, task) ==
    IF task.pc = "alert.resolve"
    THEN IF resolveENS(TRUE, AsyncAnswer) = NULL THEN Step(m, Answer(task, 404))
         ELSE Step(m, [task EXCEPT !.pc = "alert.get",
                                   !.address = resolveENS(TRUE, AsyncAnswer)])
    ELSE Step(m, Answer(task, alertCatch(m).response.status))

\* POST /api/alert enters the limiter
RequestArrives(req) ==
    /\ running
    /\ Len(tasks) < MaxRequests
    /\ \E r \in {beginAlert(Machine, Task(Len(tasks) + 1, "alert", NoChat, req.ens, req), now)} :
           /\ Commit(r.m)
           /\ tasks' = Append(tasks, r.task)
    /\ responses' = Append(responses, <<>>)
    /\ UNCHANGED <<now, optedOut, passed, variant, tokenHits, tokenPassed, base, raw, applied,
                   tokens, startup>>

\* request i ran from one await to the next, or to its response
Continued(i, r) ==
    /\ Commit(r.m)
    /\ tasks' = [tasks EXCEPT ![i] = r.task]
    /\ responses' = [responses EXCEPT ![i] = IF r.task.status # 0
                                              THEN Append(@, r.task.status) ELSE @]
    /\ UNCHANGED <<now, optedOut, passed, variant, tokenHits, tokenPassed, base, raw, applied,
                   tokens, startup>>

\* the call request i awaits returns
RequestCallReturns(i) ==
    /\ running
    /\ i \in DOMAIN tasks
    /\ tasks[i].pc # "done"
    /\ \E r \in {resumeAlert(Machine, tasks[i])} : Continued(i, r)

\* the call request i awaits throws: resolveName, the document lookup or the
\* send (the limiter's memory store does not throw)
RequestCallThrows(i) ==
    /\ running
    /\ i \in DOMAIN tasks
    /\ tasks[i].pc \in {"alert.resolve", "alert.get", "alert.send"}
    /\ \E r \in {throwAlert(Machine, tasks[i])} : Continued(i, r)

RequestsArrive == \E req \in LiveRequests : RequestArrives(req)

RequestCallsReturn == \E i \in RequestIds : RequestCallReturns(i)

RequestCallsThrow == \E i \in RequestIds : RequestCallThrows(i)

NextRequests == RequestsArrive \/ RequestCallsReturn \/ RequestCallsThrow

\* the service before any registration, with chat 1 registered, and with the
\* key of its address one short of its quota
InitRequests == InitAsync /\ base \in {"fresh", "registered", "quota"}

SpecRequests == InitRequests /\ [][NextRequests]_vars

\* every call a request awaits eventually returns or throws, and the event loop
\* then runs the request's continuation
SpecRequestsLive ==
    SpecRequests /\ \A i \in RequestIds : WF_vars(RequestCallReturns(i) \/ RequestCallThrows(i))

\* request i was sent one response, with a status of the endpoint
answeredOnce(i) ==
    /\ i \in DOMAIN responses
    /\ Len(responses[i]) = 1
    /\ responses[i][1] \in {200, 400, 404, 429, 500}

\* no request was sent a second response, and every response sent has a status
\* of the endpoint
answeredAtMostOnce ==
    \A i \in DOMAIN responses :
        /\ Len(responses[i]) <= 1
        /\ \A k \in 1..Len(responses[i]) : responses[i][k] \in {200, 400, 404, 429, 500}

\* C38: when every collaborator call eventually returns or throws, every alert
\* request that arrived is eventually sent a response with status 200, 400,
\* 404, 429 or 500, and no request is ever sent a second response.
C38_EveryRequestAnsweredOnce ==
    /\ [](answeredAtMostOnce)
    /\ \A i \in RequestIds : (i \in DOMAIN tasks) ~> answeredOnce(i)

\* the key of the registered address was one short of its quota: the first
\* request passed the limiter and its send threw, the second was refused
C38_Witness ==
    /\ base = "quota"
    /\ Len(tasks) = 2
    /\ tasks[1].req = Request(Addr1, 1, 1)
    /\ tasks[2].req = Request(Addr1, 1, 1)
    /\ responses = <<(<<500>>), (<<429>>)>>

---------------------------------------------------------------------------
(* The token variant of the bot: /start handlers of the same and of other   *)
(* chats, each running from one await to the next                           *)

\* /start commands in one run
MaxStarts == 3

Token2 == <<"D", "E", "F", "4", "5", "6">>
Token3 == <<"G", "H", "I", "7", "8", "9">>

\* the tokens generateUniqueToken can come up with
TokenPool == {Token1, Token2, Token3}

\* the tokens saved for a chat
tokensOf(tk, chatId) == {t \in DOMAIN tk : tk[t] = chatId}

\* utils.getTokenByChatId: a token saved for the chat, null when there is none
getTokenByChatId(tk, chatId) ==
    IF tokensOf(tk, chatId) = {} THEN {NULL} ELSE tokensOf(tk, chatId)

\* utils.generateUniqueToken: a token no chat has
generateUniqueToken(tk) == TokenPool \ DOMAIN tk

\* utils.saveToken(token, chatId)
saveToken(tk, token, chatId) == MapSet(tk, token, chatId)

\* a /start callback of arrival number update: token is its local variable
StartTask(update, chatId) ==
    [update |-> update, kind |-> "start", chatId |-> chatId, pc |-> "getTokenByChatId",
     token |-> NULL, shown |-> NULL]

\* bot.onText(/\/start/) is called and runs up to await getTokenByChatId
StartArrives(chatId) ==
    /\ running
    /\ Len(tasks) < MaxStarts
    /\ tasks' = Append(tasks, StartTask(Len(tasks) + 1, chatId))
    /\ UNCHANGED <<store, pendingRegistrations, pendingChanges, pendingDeletions, hits, now,
                   running, optedOut, passed, variant, tokenHits, tokenPassed, base, raw,
                   applied, responses, tokens, startup>>

\* the call /start callback i awaits returns, and the callback runs to its next
\* await: the lookup answers, the generated token arrives, the save is done,
\* or the reply is sent
StartCallReturns(i) ==
    /\ running
    /\ i \in DOMAIN tasks
    /\ tasks[i].pc # "done"
    /\ \/ /\ tasks[i].pc = "getTokenByChatId"
          /\ \E token \in getTokenByChatId(tokens, tasks[i].chatId) :
                 tasks' = [tasks EXCEPT ![i].token = token,
                                        ![i].pc = IF token # NULL THEN "sendMessage"
                                                  ELSE "generateUniqueToken"]
          /\ tokens' = tokens
       \/ /\ tasks[i].pc = "generateUniqueToken"
          /\ \E token \in generateUniqueToken(tokens) :
                 tasks' = [tasks EXCEPT ![i].token = token, ![i].pc = "saveToken"]
          /\ tokens' = tokens
       \/ /\ tasks[i].pc = "saveToken"
          /\ tokens' = saveToken(tokens, tasks[i].token, tasks[i].chatId)
          /\ tasks' = [tasks EXCEPT ![i].pc = "sendMessage"]
       \/ /\ tasks[i].pc = "sendMessage"
          /\ tasks' = [tasks EXCEPT ![i].shown = tasks[i].token, ![i].pc = "done"]
          /\ tokens' = tokens
    /\ UNCHANGED <<store, pendingRegistrations, pendingChanges, pendingDeletions, hits, now,
                   running, optedOut, passed, variant, tokenHits, tokenPassed, base, raw,
                   applied, responses, startup>>

StartsArrive == \E chatId \in Chats : StartArrives(chatId)

StartCallsReturn == \E i \in 1..MaxStarts : StartCallReturns(i)

NextStarts == StartsArrive \/ StartCallsReturn

\* the token variant after its start, with no token saved
InitStarts ==
    /\ store = EmptyMap
    /\ pendingRegistrations = EmptyMap
    /\ pendingChanges = EmptyMap
    /\ pendingDeletions = EmptyMap
    /\ hits = EmptyMap
    /\ now = 0
    /\ running = TRUE
    /\ optedOut = {}
    /\ passed = EmptyMap
    /\ variant = "token"
    /\ tokenHits = EmptyMap
    /\ tokenPassed = EmptyMap
    /\ tasks = <<>>
    /\ base = "fresh"
    /\ Untouched

SpecStarts == InitStarts /\ [][NextStarts]_vars

\* the tokens the /start replies sent to a chat showed
tokensShown(chatId) ==
    {tasks[i].shown : i \in {j \in DOMAIN tasks : tasks[j].chatId = chatId
                                                  /\ tasks[j].pc = "done"}}

\* C39: in the token variant, under any interleaving of /start handlers, at
\* most one token is ever saved for a chat and every /start reply to the chat
\* shows the same token.
C39_OneTokenPerChat ==
    \A chatId \in Chats :
        /\ Cardinality(tokensOf(tokens, chatId)) <= 1
        /\ Cardinality(tokensShown(chatId)) <= 1

---------------------------------------------------------------------------
(* The start of the service: main() of alerts.js from its first statement   *)
(* to the listening server, and the requests the server then handles        *)

\* requests of one rate-limit key handled in one run
MaxServed == 2

\* process.exit: the server is gone with the process
exit(s) == [s EXCEPT !.pc = "exit", !.server = FALSE]

\* main() and initializeBot after the call they await returned or threw:
\* deleteWebHook, then setWebHook and the registration of the listeners, then
\* createAPI, which mounts the webhook route if the bot has a webhook path;
\* whatever is thrown reaches main's catch block
mainAfterAwait(s, thrown) ==
    IF thrown THEN exit(s)
    ELSE IF s.pc = "deleteWebHook" THEN [s EXCEPT !.pc = "setWebHook"]
    ELSE IF s.pc = "setWebHook"
    THEN [s EXCEPT !.webhookPath = TRUE, !.listeners = TRUE, !.pc = "initializeBot"]
    ELSE [s EXCEPT !.server = TRUE, !.route = s.webhookPath, !.pc = "listening"]

\* a main() that calls initializeBot without awaiting it and creates the API
\* in the same turn
mainWithoutAwait(s, thrown) ==
    IF s.pc # "main" THEN mainAfterAwait(s, thrown)
    ELSE IF thrown THEN exit(s)
    ELSE [s EXCEPT !.db = TRUE, !.bot = TRUE, !.listeners = ~s.webhookUrl,
                   !.server = TRUE, !.route = FALSE,
                   !.pc = IF s.webhookUrl THEN "deleteWebHook" ELSE "initializeBot"]

\* main() from one await to the next. Its first turn: initializeFirebase sets
\* db or throws; initializeBot creates the bot and, with a webhook URL, awaits
\* deleteWebHook, else registers the listeners and returns
main(s, thrown) ==
    IF s.pc # "main" THEN mainAfterAwait(s, thrown)
    ELSE IF thrown THEN exit(s)
    ELSE [s EXCEPT !.db = TRUE, !.bot = TRUE, !.listeners = ~s.webhookUrl,
                   !.pc = IF s.webhookUrl THEN "deleteWebHook" ELSE "initializeBot"]

\* firebase.js getDb throws 'Firebase not initialized' while db is null
getDbThrows(s) == ~s.db

\* the process as a request finds it: bot is the module variable of bot.js
Serving == [Machine EXCEPT !.bot = startup.bot]

\* requests for the registered address, for an address nobody registered, for
\* a name, without a message and without an identifier
MainRequests ==
    {Request(Addr1, 1, 1), Request(Addr2, 1, 1), Request(NameEth, 1, 1),
     Request(Addr1, 0, 1), Request(NULL, 1, 1)}

\* webhook bodies: /show of the registered chat, /start and then an address of
\* another chat, and a body that is not an update
MainUpdates ==
    {[object |-> TRUE, chatId |-> 1, text |-> cmdShow],
     [object |-> TRUE, chatId |-> 2, text |-> cmdStart],
     [object |-> TRUE, chatId |-> 2, text |-> Addr2],
     NotAnUpdate}

\* main() runs its next turn
MainRuns(thrown) ==
    /\ running
    /\ startup.pc \notin {"listening", "exit"}
    /\ startup' = main(startup, thrown)
    /\ running' = (startup'.pc # "exit")
    /\ UNCHANGED <<store, pendingRegistrations, pendingChanges, pendingDeletions, hits, now,
                   optedOut, passed, variant, tokenHits, tokenPassed, tasks, base, raw,
                   applied, responses, tokens>>

\* SIGINT or SIGTERM: server.close, stopBot, process.exit(0)
Shutdown ==
    /\ running
    /\ startup.pc = "listening"
    /\ startup' = exit(startup)
    /\ running' = FALSE
    /\ UNCHANGED <<store, pendingRegistrations, pendingChanges, pendingDeletions, hits, now,
                   optedOut, passed, variant, tokenHits, tokenPassed, tasks, base, raw,
                   applied, responses, tokens>>

\* the listening server handles POST /api/alert
MainAlert(req, env) ==
    /\ running
    /\ startup.server
    /\ hitsOf(keyGenerator(req)) < MaxServed
    /\ \E m \in {postAlert(Serving, env, req, now)} : Commit(m)
    /\ UNCHANGED <<now, optedOut, passed, variant, tokenHits, tokenPassed, tasks, base, raw,
                   applied, responses, tokens, startup>>

\* the listening server handles a POST to the webhook path
MainWebhook(update) ==
    /\ running
    /\ startup.server
    /\ \E m \in {webhookPost(Serving, Env({}, NULL),
                              IF startup.route THEN WebhookPath ELSE NULL, update, now)} :
           Commit(m)
    /\ UNCHANGED <<now, optedOut, passed, variant, tokenHits, tokenPassed, tasks, base, raw,
                   applied, responses, tokens, startup>>

MainTurns == \E thrown \in BOOLEAN : MainRuns(thrown)

MainAlerts == \E req \in MainRequests : \E env \in OneFailEnvs(req) : MainAlert(req, env)

MainWebhooks == \E update \in MainUpdates : MainWebhook(update)

NextMain == MainTurns \/ Shutdown \/ MainAlerts \/ MainWebhooks

\* main() is called, with or without WEBHOOK_URL, on a collection that holds
\* one registration
InitMain ==
    /\ store = saveAddress(EmptyMap, NULL, Addr1, 1, 0)
    /\ pendingRegistrations = EmptyMap
    /\ pendingChanges = EmptyMap
    /\ pendingDeletions = EmptyMap
    /\ hits = EmptyMap
    /\ now = 0
    /\ running = TRUE
    /\ optedOut = {}
    /\ passed = EmptyMap
    /\ variant = "ens"
    /\ tokenHits = EmptyMap
    /\ tokenPassed = EmptyMap
    /\ tasks = <<>>
    /\ base = "fresh"
    /\ raw = NULL
    /\ applied = <<>>
    /\ responses = <<>>
    /\ tokens = <<>>
    /\ \E url \in BOOLEAN :
           startup = [pc |-> "main", webhookUrl |-> url, db |-> FALSE, bot |-> FALSE,
                      listeners |-> FALSE, webhookPath |-> FALSE, server |-> FALSE,
                      route |-> FALSE]

SpecMain == InitMain /\ [][NextMain]_vars

\* initializeFirebase and initializeBot have completed
initialized(s) ==
    /\ ~getDbThrows(s)
    /\ s.bot
    /\ s.listeners
    /\ s.webhookUrl => s.webhookPath
    /\ s.pc = "listening"

\* C40: the server exists only after initializeFirebase and initializeBot have
\* completed: whenever it listens, the store handle and the bot are set, the
\* listeners are registered and, with a webhook URL, the webhook route is
\* mounted; no alert request and no webhook update it handles finds the bot
\* missing.
C40_ServerAfterInitialization ==
    startup.server =>
        /\ initialized(startup)
        /\ startup.route = startup.webhookUrl
        /\ \A req \in MainRequests :
               \A env \in OneFailEnvs(req) :
                   \A m \in {postAlert(Serving, env, req, now)} :
                       /\ m.bot
                       /\ m.response.status = 500 => threw(m)
        /\ \A update \in MainUpdates :
               \A r \in {processWebhookUpdate(Serving, Env({}, NULL), update, now)} :
                   /\ r.m.bot
                   /\ r.threw => ~update.object

\* the service started with a webhook URL and has handled an alert for the
\* registered chat and the /start of another chat
C40_Witness ==
    /\ running
    /\ startup.server
    /\ startup.webhookUrl
    /\ hitsOf(Addr1) = 1
    /\ MapHas(pendingRegistrations, 2)
    /\ postAlert(Serving, Env({}, NULL), Request(Addr1, 1, 1), now).response.status = 200

=============================================================================
